---- MODULE Spec2Model ----
(***************************************************************************)
(* Resource orchestration of nukleros/eks-cluster: the ordered create      *)
(* sequence (CreateResourceStack), the delete sequence                     *)
(* (DeleteResourceStack), the cloud resource adapters they call, the       *)
(* inventory they maintain and the two notification channels.              *)
(*                                                                         *)
(* The provider (AWS) is the environment: every provider API call made by  *)
(* an adapter either succeeds, reports NotFound (only for a resource that  *)
(* does not exist) or fails with another API error.  An adapter is an      *)
(* operator that maps the position of the failing provider call to what    *)
(* the Go function returns; an orchestrator step is one action.            *)
(***************************************************************************)
EXTENDS Integers, Sequences, FiniteSets, TLC

\* ------------------------------------------------------------------ bounds
MaxZones == 2        \* longest availability-zone list of a configuration
MaxDeleteRuns == 1   \* delete command runs per behaviour, after the create command
MaxAdapterCalls == 2 \* invocations of one delete adapter in a row
MaxNodeGroups == 2   \* node group names handed to one WaitForNodeGroups call
MaxNameLen == 50     \* longest cluster name (resourceConfig.Name), in characters
MaxListLen == 2      \* longest identifier list of a serialized inventory
MaxUserTags == 2     \* configured tags besides the name
MaxYields == 1       \* times the scheduler moves between the two goroutines of createCmd

\* --------------------------------------------------------------- constants
maxAZCount == 3      \* availability_zones.go: const maxAZCount

VARIABLES
  cfg,          \* ResourceConfig: Region, DNSManagement, ClusterAutoscaling, zones
  awsRegion,    \* c.AWSConfig.Region
  azs,          \* resourceConfig.AvailabilityZones, mutated in place
  pc,           \* position of the calling process in the create/delete run
  inventory,    \* the ResourceInventory value owned by the running sequence
  locals,       \* locals of CreateResourceStack that later steps read
  file,         \* the inventory file: NoFile or the last inventory written
  cloud,        \* identifiers of the resources that exist in the account
  attached,     \* <<role, policy>> attachments that exist in the account
  deleting,     \* asynchronous resources whose deletion has been initiated
  calls,        \* history: adapter invocations and channel sends, in order
  ret,          \* what the last adapter invocation created and returned
  chans,        \* MessageChan / InventoryChan pointers and their consumers
  deleteRuns,   \* number of delete command runs started
  cmd,          \* who drives the client: createCmd, deleteCmd or a library caller
  goroutine,    \* the goroutine whose step is taken: main or the signal handler
  parked,       \* pc, inventory, locals and ret of the goroutine not being stepped
  poll          \* the polling loop of a WaitFor* call taken on its own

vars == <<cfg, awsRegion, azs, pc, inventory, locals, file, cloud, attached, deleting,
          calls, ret, chans, deleteRuns, cmd, goroutine, parked, poll>>

\* ------------------------------------------------------------- identifiers
\* A provider-assigned identifier; Empty is the Go empty string.
Id(kind, sub, idx) == <<kind, sub, idx>>
Empty == <<"", "", 0>>

VpcId == Id("vpc", "", 0)
IgwId == Id("igw", "", 0)
PrivateSubnetId(i) == Id("subnet", "private", i)
PublicSubnetId(i) == Id("subnet", "public", i)
ElasticIPId(i) == Id("eipalloc", "", i)
NatGatewayId(i) == Id("nat", "", i)
PublicRouteTableId == Id("rtb", "public", 0)
PrivateRouteTableId(i) == Id("rtb", "private", i)
DNSPolicyArn == Id("policy", "dns", 0)
ClusterAutoscalingPolicyArn == Id("policy", "autoscaling", 0)
ClusterRoleName == Id("role", "cluster", 0)
WorkerRoleName == Id("role", "worker", 0)
DNSManagementRoleName == Id("role", "dns", 0)
ClusterAutoscalingRoleName == Id("role", "autoscaling", 0)
StorageManagementRoleName == Id("role", "storage", 0)
ClusterName == Id("cluster", "", 0)
PrivateNodeGroupName == Id("nodegroup", "private", 0)
OIDCIssuer == Id("issuer", "", 0)
OIDCProviderArn == Id("oidc", "", 0)
EBSStorageAddonName == Id("addon", "ebs", 0)

\* AWS managed policies: attached to roles, never created or deleted here.
ClusterPolicyARN == Id("awspolicy", "AmazonEKSClusterPolicy", 0)
WorkerNodePolicyARN == Id("awspolicy", "AmazonEKSWorkerNodePolicy", 0)
ContainerRegistryPolicyARN == Id("awspolicy", "AmazonEC2ContainerRegistryReadOnly", 0)
CNIPolicyARN == Id("awspolicy", "AmazonEKS_CNI_Policy", 0)
CSIDriverPolicyARN == Id("awspolicy", "AmazonEBSCSIDriverPolicy", 0)

getWorkerPolicyARNs == <<WorkerNodePolicyARN, ContainerRegistryPolicyARN, CNIPolicyARN>>

\* ----------------------------------------------------------------- helpers
Range(s) == {s[i] : i \in 1..Len(s)}

Min(a, b) == IF a < b THEN a ELSE b

RECURSIVE Reverse(_)
Reverse(s) == IF s = <<>> THEN <<>> ELSE Append(Reverse(Tail(s)), Head(s))


\* --------------------------------------------------------------- inventory
RoleInventory(name, policies) == [RoleName |-> name, RolePolicyARNs |-> policies]
EmptyRole == RoleInventory(Empty, <<>>)
EmptyCluster == [ClusterName |-> Empty, OIDCProviderURL |-> Empty]

\* The zero value of ResourceInventory.
EmptyInventory ==
  [Region |-> "",
   VPCID |-> Empty,
   SubnetIDs |-> <<>>,
   InternetGatewayID |-> Empty,
   ElasticIPIDs |-> <<>>,
   PrivateRouteTableIDs |-> <<>>,
   PublicRouteTableID |-> Empty,
   ClusterRole |-> EmptyRole,
   WorkerRole |-> EmptyRole,
   DNSManagementRole |-> EmptyRole,
   ClusterAutoscalingRole |-> EmptyRole,
   StorageManagementRole |-> EmptyRole,
   PolicyARNs |-> <<>>,
   Cluster |-> EmptyCluster,
   NodeGroupNames |-> <<>>,
   OIDCProviderARN |-> Empty]

\* WriteInventory: the JSON document of an inventory, by its keys.
WriteInventory(inv) ==
  [region |-> inv.Region,
   vpcID |-> inv.VPCID,
   subnetIDs |-> inv.SubnetIDs,
   internetGatewayID |-> inv.InternetGatewayID,
   elasticIPIDs |-> inv.ElasticIPIDs,
   privateRouteTableIDs |-> inv.PrivateRouteTableIDs,
   publicRouteTableID |-> inv.PublicRouteTableID,
   clusterRole |-> [roleName |-> inv.ClusterRole.RoleName,
                    rolePolicyARNs |-> inv.ClusterRole.RolePolicyARNs],
   workerRole |-> [roleName |-> inv.WorkerRole.RoleName,
                   rolePolicyARNs |-> inv.WorkerRole.RolePolicyARNs],
   dnsManagementRole |-> [roleName |-> inv.DNSManagementRole.RoleName,
                          rolePolicyARNs |-> inv.DNSManagementRole.RolePolicyARNs],
   clusterAutoscalingRole |-> [roleName |-> inv.ClusterAutoscalingRole.RoleName,
                               rolePolicyARNs |-> inv.ClusterAutoscalingRole.RolePolicyARNs],
   storageManagementRole |-> [roleName |-> inv.StorageManagementRole.RoleName,
                              rolePolicyARNs |-> inv.StorageManagementRole.RolePolicyARNs],
   policyARNs |-> inv.PolicyARNs,
   cluster |-> [clusterName |-> inv.Cluster.ClusterName,
                oidcProviderURL |-> inv.Cluster.OIDCProviderURL],
   nodeGroupNames |-> inv.NodeGroupNames,
   oidcProviderARN |-> inv.OIDCProviderARN]

\* ReadInventory: the inventory unmarshalled from the JSON document f.
ReadInventory(f) ==
  [Region |-> f.region,
   VPCID |-> f.vpcID,
   SubnetIDs |-> f.subnetIDs,
   InternetGatewayID |-> f.internetGatewayID,
   ElasticIPIDs |-> f.elasticIPIDs,
   PrivateRouteTableIDs |-> f.privateRouteTableIDs,
   PublicRouteTableID |-> f.publicRouteTableID,
   ClusterRole |-> RoleInventory(f.clusterRole.roleName, f.clusterRole.rolePolicyARNs),
   WorkerRole |-> RoleInventory(f.workerRole.roleName, f.workerRole.rolePolicyARNs),
   DNSManagementRole |-> RoleInventory(f.dnsManagementRole.roleName,
                                       f.dnsManagementRole.rolePolicyARNs),
   ClusterAutoscalingRole |-> RoleInventory(f.clusterAutoscalingRole.roleName,
                                            f.clusterAutoscalingRole.rolePolicyARNs),
   StorageManagementRole |-> RoleInventory(f.storageManagementRole.roleName,
                                           f.storageManagementRole.rolePolicyARNs),
   PolicyARNs |-> f.policyARNs,
   Cluster |-> [ClusterName |-> f.cluster.clusterName,
                OIDCProviderURL |-> f.cluster.oidcProviderURL],
   NodeGroupNames |-> f.nodeGroupNames,
   OIDCProviderARN |-> f.oidcProviderARN]

\* The inventory file does not exist.
NoFile == [WriteInventory(EmptyInventory) EXCEPT !.region = "<no file>"]

AvailabilityZone == [PrivateSubnetID |-> Empty, PublicSubnetID |-> Empty, NATGatewayID |-> Empty]

\* ------------------------------------------------------------ provider model
\* The position of the provider API call that fails inside one adapter
\* invocation making n provider calls; 0: none fails.
FailAt(n) == 0..n

\* ---------------------------------------------------------- create adapters
\* Every create adapter yields [err, created, ids, ...]: err is the Go error,
\* created the resources the provider created during the call, ids what the
\* function returns to the orchestrator (a nil pointer and an empty list both
\* yield no identifier).

\* vpc.go: CreateVpc, ModifyVpcAttribute (hostnames), ModifyVpcAttribute (support).
CreateVPC(failAt) ==
  IF failAt = 1 THEN [err |-> TRUE, created |-> {}, ids |-> <<>>]
  ELSE [err |-> failAt # 0, created |-> {VpcId}, ids |-> <<VpcId>>]

\* nat_gateway.go: CreateInternetGateway, AttachInternetGateway.
CreateInternetGateway(failAt) ==
  IF failAt = 1 THEN [err |-> TRUE, created |-> {}, ids |-> <<>>]
  ELSE [err |-> failAt # 0, created |-> {IgwId}, ids |-> <<IgwId>>]

\* subnet.go: per zone CreateSubnet (private), CreateSubnet (public),
\* ModifySubnetAttribute.  The zone loop, from zone i with the subnets
\* accumulated so far.
RECURSIVE CreateSubnetsLoop(_, _, _, _, _)
CreateSubnetsLoop(i, zones, privateSubnets, publicSubnets, failAt) ==
  LET made == Range(privateSubnets) \cup Range(publicSubnets)
      z1 == [zones EXCEPT ![i].PrivateSubnetID = PrivateSubnetId(i)]
      z2 == [z1 EXCEPT ![i].PublicSubnetID = PublicSubnetId(i)]
      priv1 == Append(privateSubnets, PrivateSubnetId(i))
      pub1 == Append(publicSubnets, PublicSubnetId(i))
  IN IF i > Len(zones)
     THEN [err |-> FALSE, created |-> made, zones |-> zones,
           privateSubnets |-> privateSubnets, publicSubnets |-> publicSubnets]
     ELSE IF failAt = 3 * (i - 1) + 1
     THEN \* return nil, nil, err
          [err |-> TRUE, created |-> made, zones |-> zones,
           privateSubnets |-> <<>>, publicSubnets |-> <<>>]
     ELSE IF failAt = 3 * (i - 1) + 2
     THEN \* return &privateSubnets, nil, err
          [err |-> TRUE, created |-> made \cup {PrivateSubnetId(i)}, zones |-> z1,
           privateSubnets |-> priv1, publicSubnets |-> <<>>]
     ELSE IF failAt = 3 * (i - 1) + 3
     THEN \* return &privateSubnets, &publicSubnets, err
          [err |-> TRUE, created |-> made \cup {PrivateSubnetId(i), PublicSubnetId(i)},
           zones |-> z2, privateSubnets |-> priv1, publicSubnets |-> pub1]
     ELSE CreateSubnetsLoop(i + 1, z2, priv1, pub1, failAt)

CreateSubnets(zones, failAt) ==
  LET r == CreateSubnetsLoop(1, zones, <<>>, <<>>, failAt)
  IN [err |-> r.err, created |-> r.created, zones |-> r.zones,
      privateSubnets |-> r.privateSubnets, publicSubnets |-> r.publicSubnets,
      ids |-> r.privateSubnets \o r.publicSubnets]

\* elastic_ips.go: one AllocateAddress per public subnet.
CreateElasticIPs(publicSubnetIDs, failAt) ==
  LET n == IF failAt = 0 THEN Len(publicSubnetIDs) ELSE failAt - 1
      eips == [i \in 1..n |-> ElasticIPId(i)]
  IN [err |-> failAt # 0, created |-> Range(eips), ids |-> eips]

\* nat_gateway.go: one CreateNatGateway per zone; only the error is returned.
CreateNATGateways(zones, elasticIPIDs, failAt) ==
  LET n == IF failAt = 0 THEN Len(zones) ELSE failAt - 1
  IN [err |-> failAt # 0, created |-> {NatGatewayId(i) : i \in 1..n}, ids |-> <<>>]

\* route_table.go: CreateRouteTable (public), CreateRoute (internet gateway),
\* then per zone CreateRouteTable (private), AssociateRouteTable (private),
\* CreateRoute (NAT gateway), AssociateRouteTable (public).
\* publicNilId: the returned public route table is the zero value, whose
\* RouteTableId is a nil pointer.
CreateRouteTables(zones, failAt) ==
  LET n == IF failAt = 0 THEN Len(zones)
           ELSE IF failAt <= 2 THEN 0
           ELSE IF (failAt - 3) % 4 = 0 THEN (failAt - 3) \div 4
           ELSE (failAt - 3) \div 4 + 1
      privs == [i \in 1..n |-> PrivateRouteTableId(i)]
  IN IF failAt = 1
     THEN [err |-> TRUE, created |-> {}, ids |-> <<>>,
           privateRouteTables |-> <<>>, publicRouteTable |-> Empty, publicNilId |-> TRUE]
     ELSE [err |-> failAt # 0,
           created |-> Range(privs) \cup {PublicRouteTableId},
           ids |-> Append(privs, PublicRouteTableId),
           privateRouteTables |-> privs, publicRouteTable |-> PublicRouteTableId,
           publicNilId |-> FALSE]

\* addon.go: CreatePolicy.
CreateDNSManagementPolicy(failAt) ==
  IF failAt = 1 THEN [err |-> TRUE, created |-> {}, ids |-> <<>>]
  ELSE [err |-> FALSE, created |-> {DNSPolicyArn}, ids |-> <<DNSPolicyArn>>]

CreateClusterAutoscalingPolicy(failAt) ==
  IF failAt = 1 THEN [err |-> TRUE, created |-> {}, ids |-> <<>>]
  ELSE [err |-> FALSE, created |-> {ClusterAutoscalingPolicyArn},
        ids |-> <<ClusterAutoscalingPolicyArn>>]

\* role.go: CreateRole (cluster), AttachRolePolicy, CreateRole (worker),
\* AttachRolePolicy for each of the three worker policies.  attached: the
\* <<role, policy>> attachments the provider made.
CreateRoles(failAt) ==
  LET workerAttached(n) == {<<WorkerRoleName, getWorkerPolicyARNs[k]>> : k \in 1..n}
      clusterAttached == {<<ClusterRoleName, ClusterPolicyARN>>}
  IN IF failAt = 1 THEN [err |-> TRUE, created |-> {}, ids |-> <<>>, attached |-> {}]
     ELSE IF failAt = 2
     THEN [err |-> TRUE, created |-> {ClusterRoleName}, ids |-> <<ClusterRoleName>>,
           attached |-> {}]
     ELSE IF failAt = 3
     THEN [err |-> TRUE, created |-> {ClusterRoleName}, ids |-> <<ClusterRoleName>>,
           attached |-> clusterAttached]
     ELSE [err |-> failAt # 0, created |-> {ClusterRoleName, WorkerRoleName},
           ids |-> <<ClusterRoleName, WorkerRoleName>>,
           attached |-> clusterAttached \cup
                        workerAttached(IF failAt = 0 THEN 3 ELSE failAt - 4)]

\* role.go: CreateRole with the policy as permissions boundary, then
\* AttachRolePolicy, for one service-account role; boundary is the
\* PermissionsBoundary of the CreateRole call that succeeded.
CreateServiceAccountRole(roleName, policyARN, failAt) ==
  IF failAt = 1
  THEN [err |-> TRUE, created |-> {}, ids |-> <<>>, attached |-> {}, boundary |-> Empty]
  ELSE [err |-> failAt # 0, created |-> {roleName}, ids |-> <<roleName>>,
        attached |-> IF failAt = 0 THEN {<<roleName, policyARN>>} ELSE {},
        boundary |-> policyARN]

\* A DNS management role created without a permissions boundary.
CreateDNSManagementRoleUnbounded(dnsPolicyARN, failAt) ==
  [CreateServiceAccountRole(DNSManagementRoleName, dnsPolicyARN, failAt)
     EXCEPT !.boundary = Empty]

CreateDNSManagementRole(dnsPolicyARN, failAt) ==
  CreateServiceAccountRole(DNSManagementRoleName, dnsPolicyARN, failAt)

CreateClusterAutoscalingRole(autoscalingPolicyARN, failAt) ==
  CreateServiceAccountRole(ClusterAutoscalingRoleName, autoscalingPolicyARN, failAt)

CreateStorageManagementRole(failAt) ==
  CreateServiceAccountRole(StorageManagementRoleName, CSIDriverPolicyARN, failAt)

\* cluster: CreateCluster.
CreateCluster(failAt) ==
  IF failAt = 1 THEN [err |-> TRUE, created |-> {}, ids |-> <<>>]
  ELSE [err |-> FALSE, created |-> {ClusterName}, ids |-> <<ClusterName>>]

\* node_group.go: CreateNodegroup for the private node group.
CreateNodeGroups(failAt) ==
  IF failAt = 1 THEN [err |-> TRUE, created |-> {}, ids |-> <<>>]
  ELSE [err |-> FALSE, created |-> {PrivateNodeGroupName}, ids |-> <<PrivateNodeGroupName>>]

\* oidc provider: tls.Dial to the issuer, CreateOpenIDConnectProvider.
CreateOIDCProvider(failAt) ==
  IF failAt \in {1, 2} THEN [err |-> TRUE, created |-> {}, ids |-> <<>>]
  ELSE [err |-> FALSE, created |-> {OIDCProviderArn}, ids |-> <<OIDCProviderArn>>]

\* addon.go: CreateAddon.
CreateEBSStorageAddon(failAt) ==
  IF failAt = 1 THEN [err |-> TRUE, created |-> {}, ids |-> <<>>]
  ELSE [err |-> FALSE, created |-> {EBSStorageAddonName}, ids |-> <<EBSStorageAddonName>>]

\* ----------------------------------------------------------- wait primitives
\* The result of a wait as the orchestrator sees it.  observed is what the
\* polling loop met: "met" (the condition held in some round), "timeout" (the
\* attempt ceiling was exceeded) or "error" (a status fetch failed).
WaitOutcomes == {"met", "timeout", "error"}

\* WaitForNATGateways: no early return; any status list can be observed.
WaitForNATGateways(observed) == [err |-> observed # "met"]

\* WaitForCluster: an empty cluster name returns nil without polling.
WaitForCluster(clusterName, observed) ==
  IF clusterName = Empty THEN [err |-> FALSE, polled |-> FALSE]
  ELSE [err |-> observed # "met", polled |-> TRUE]

\* WaitForNodeGroups: an empty list returns nil without polling.
WaitForNodeGroups(nodeGroupNames, observed) ==
  IF Len(nodeGroupNames) = 0 THEN [err |-> FALSE, polled |-> FALSE]
  ELSE [err |-> observed # "met", polled |-> TRUE]

\* ------------------------------------------------- notification channels
\* One step of the orchestrator is a sequence of events: the adapter
\* invocation, sendInventory(inv) and sendMessage(text).
Call(op, err) == [t |-> "call", op |-> op, err |-> err, inv |-> EmptyInventory]
Inv(inv) == [t |-> "inv", op |-> "sendInventory", err |-> FALSE, inv |-> inv]
Msg(text) == [t |-> "msg", op |-> text, err |-> FALSE, inv |-> EmptyInventory]
\* The entry of a DeleteResourceStack run, with the inventory it is given.
Run(inv) == [t |-> "run", op |-> "DeleteResourceStack", err |-> FALSE, inv |-> inv]

\* sendMessage / sendInventory: no send when the channel pointer is nil;
\* otherwise a send on the unbuffered channel, which completes when the
\* consumer goroutine receives and blocks while no goroutine receives.
SendBlocks(ch) == ch = "stopped"
\* A guard that never lets a send through.
SendNeverAttempted(ch) == ch \in {"nil", "live", "stopped"}
SendSkipped(ch) == ch = "nil"

\* The events of one step, in order, from the state st = [hist, file, inv,
\* blocked, callDone]: hist the events that happened, file the inventory file
\* (written by the consumer of InventoryChan for every snapshot it receives),
\* inv the inventory value of the last sendInventory reached.
RunEvents(events, ch, file0, inv0) ==
  LET F[i \in 0..Len(events)] ==
        IF i = 0
        THEN [hist |-> <<>>, file |-> file0, inv |-> inv0, blocked |-> FALSE,
              callDone |-> FALSE]
        ELSE LET st == F[i-1]
                 e == events[i]
             IN IF st.blocked THEN st
                ELSE IF e.t = "call"
                THEN [st EXCEPT !.hist = Append(@, e), !.callDone = TRUE]
                ELSE IF e.t = "inv"
                THEN IF SendSkipped(ch.inv) THEN [st EXCEPT !.inv = e.inv]
                     ELSE IF SendBlocks(ch.inv)
                     THEN [st EXCEPT !.inv = e.inv, !.blocked = TRUE]
                     ELSE [st EXCEPT !.inv = e.inv, !.file = WriteInventory(e.inv),
                                     !.hist = Append(@, e)]
                ELSE IF SendSkipped(ch.msg) THEN st
                     ELSE IF SendBlocks(ch.msg) THEN [st EXCEPT !.blocked = TRUE]
                     ELSE [st EXCEPT !.hist = Append(@, e)]
  IN F[Len(events)]

\* ---------------------------------------------------------------- sequences
\* A create order that starts the cluster before its roles exist.
CreateSequenceClusterBeforeRoles ==
  <<"CreateVPC", "CreateInternetGateway", "CreateSubnets", "CreateElasticIPs",
    "CreateNATGateways", "WaitForNATGateways:Created", "CreateRouteTables",
    "CreateDNSManagementPolicy", "CreateClusterAutoscalingPolicy", "CreateCluster",
    "CreateRoles", "WaitForCluster:Created", "CreateNodeGroups",
    "WaitForNodeGroups:Created", "CreateOIDCProvider", "CreateDNSManagementRole",
    "CreateClusterAutoscalingRole", "CreateStorageManagementRole",
    "CreateEBSStorageAddon">>

\* A delete order that mirrors the create order for the network resources.
DeleteSequenceExactReverse ==
  <<"DeleteOIDCProvider", "DeleteNodeGroups", "WaitForNodeGroups:Deleted",
    "DeleteCluster", "WaitForCluster:Deleted", "DeleteRoles", "DeletePolicies",
    "DeleteRouteTables", "DeleteNATGateways", "WaitForNATGateways:Deleted",
    "DeleteElasticIPs", "DeleteSubnets", "DeleteInternetGateway", "DeleteVPC">>

\* The steps of CreateResourceStack in the order of the function body.
CreateSequence ==
  <<"CreateVPC", "CreateInternetGateway", "CreateSubnets", "CreateElasticIPs",
    "CreateNATGateways", "WaitForNATGateways:Created", "CreateRouteTables",
    "CreateDNSManagementPolicy", "CreateClusterAutoscalingPolicy", "CreateRoles",
    "CreateCluster", "WaitForCluster:Created", "CreateNodeGroups",
    "WaitForNodeGroups:Created", "CreateOIDCProvider", "CreateDNSManagementRole",
    "CreateClusterAutoscalingRole", "CreateStorageManagementRole",
    "CreateEBSStorageAddon">>

\* The steps of DeleteResourceStack in the order of the function body.
DeleteSequence ==
  <<"DeleteOIDCProvider", "DeleteNodeGroups", "WaitForNodeGroups:Deleted",
    "DeleteCluster", "WaitForCluster:Deleted", "DeleteRoles", "DeletePolicies",
    "DeleteNATGateways", "WaitForNATGateways:Deleted", "DeleteInternetGateway",
    "DeleteElasticIPs", "DeleteSubnets", "DeleteRouteTables", "DeleteVPC">>

IndexOf(seq, x) == CHOOSE i \in 1..Len(seq) : seq[i] = x

\* The step that follows step in a run that has not failed.
AfterCreate(step) ==
  LET i == IndexOf(CreateSequence, step)
  IN IF i = Len(CreateSequence) THEN "created" ELSE CreateSequence[i + 1]

AfterDelete(step) ==
  LET i == IndexOf(DeleteSequence, step)
  IN IF i = Len(DeleteSequence) THEN "deleteReturned" ELSE DeleteSequence[i + 1]

\* if err != nil { return err }
CreateOutcome(step, err) == IF err THEN "createFailed" ELSE AfterCreate(step)

\* A delete run that goes on to the next step whatever the step returned.
DeleteOutcomeIgnoringError(step, err) == AfterDelete(step)

DeleteOutcome(step, err) == IF err THEN "deleteFailed" ELSE AfterDelete(step)

\* ------------------------------------------------------------ configuration
Regions == {"", "us-east-2"}

\* GetAvailabilityZonesForRegion: the number of zones taken from the offered
\* zones of the region.
GetAvailabilityZonesForRegion(desiredAZs, offered) ==
  LET azCount == IF desiredAZs > maxAZCount THEN maxAZCount ELSE desiredAZs
  IN Min(offered, azCount)

\* SetAvailabilityZones: [err, n] with n the length of the zone list after
\* the call; offered is the provider's answer, -1 a failed describe call.
SetAvailabilityZones(region, given, desiredAZCount, offered) ==
  IF region = "" THEN [err |-> TRUE, n |-> given]
  ELSE IF given > 0 THEN [err |-> FALSE, n |-> given]
  ELSE IF offered < 0 THEN [err |-> TRUE, n |-> 0]
  ELSE [err |-> FALSE,
        n |-> GetAvailabilityZonesForRegion(
                IF desiredAZCount = 0 THEN 2 ELSE desiredAZCount, offered)]

NoLocals ==
  [privateSubnetIDs |-> <<>>, publicSubnetIDs |-> <<>>, elasticIPIDs |-> <<>>,
   createdDNSPolicy |-> Empty, createdClusterAutoscalingPolicy |-> Empty,
   oidcIssuer |-> Empty]

\* The last adapter invocation: what it was given, what the provider did
\* during it and what it returned.
NoRet ==
  [op |-> "", args |-> <<>>, created |-> {}, returned |-> {}, err |-> FALSE,
   notFound |-> FALSE, last |-> "none", n |-> 0, boundary |-> Empty]

Ret(op, r) == [NoRet EXCEPT !.op = op, !.created = r.created,
                            !.returned = Range(r.ids), !.err = r.err]

\* No second goroutine: the context of a goroutine that does not exist.
NoGoroutine == [pc |-> "none", inventory |-> EmptyInventory, locals |-> NoLocals,
                ret |-> NoRet, yields |-> 0]

\* No WaitFor* call is being taken on its own.
NoWait ==
  [op |-> "none", condition |-> "none", members |-> 0, count |-> 0, fetches |-> 0,
   sleeps |-> 0, round |-> <<>>, answers |-> <<>>, result |-> "none", pending |-> TRUE]

\* A channel pointer of the ResourceClient: nil, a channel whose consumer
\* goroutine receives ("live"), or a channel nobody receives from ("stopped").
ChannelStates == {"nil", "live", "stopped"}

\* CreateResourceClient makes both channels; the commands start a consumer
\* goroutine for each of them.
CreateResourceClient == [msg |-> "live", inv |-> "live"]

\* The configurations of the command line: any region, toggle, zone list
\* (0: to be looked up) and tags combination.
Configs ==
  [Region : Regions, DNSManagement : BOOLEAN, ClusterAutoscaling : BOOLEAN,
   AvailabilityZones : 0..MaxZones, DesiredAZCount : {0}, Tags : {"nil", "map"}]

\* The configuration of the library caller.
LibraryConfigs ==
  {c \in Configs : /\ c.Region # "" /\ c.Tags = "map" /\ c.AvailabilityZones = 1
                   /\ c.DNSManagement /\ ~c.ClusterAutoscaling}

Init ==
  /\ cmd \in {"createCmd", "library"}
  /\ cfg \in IF cmd = "createCmd" THEN Configs ELSE LibraryConfigs
  /\ awsRegion \in Regions
  /\ azs = <<>>
  /\ pc = "start"
  /\ inventory = EmptyInventory
  /\ locals = NoLocals
  /\ file = NoFile
  /\ cloud = {}
  /\ attached = {}
  /\ deleting = {}
  /\ calls = <<>>
  /\ ret = NoRet
  /\ chans \in IF cmd = "createCmd" THEN {CreateResourceClient}
              ELSE [msg : ChannelStates, inv : ChannelStates]
  /\ deleteRuns = 0
  /\ goroutine = "main"
  /\ parked = NoGoroutine
  /\ poll = NoWait

\* ------------------------------------------------------------ step framework
\* One step of a run: its events in order; the adapter's effects on the
\* account happen when the step reaches the adapter invocation, and the step
\* never returns when a send blocks.
Step(events, outcome, ret1, cloud1, attached1, deleting1, azs1, locals1) ==
  LET run == RunEvents(events, chans, file, inventory)
  IN /\ calls' = calls \o run.hist
     /\ file' = run.file
     /\ inventory' = run.inv
     /\ pc' = IF run.blocked THEN "blocked" ELSE outcome
     /\ IF run.callDone
        THEN /\ cloud' = cloud1
             /\ attached' = attached1
             /\ deleting' = deleting1
             /\ ret' = ret1
             /\ azs' = azs1
             /\ locals' = locals1
        ELSE UNCHANGED <<cloud, attached, deleting, ret, azs, locals>>
     /\ UNCHANGED <<cfg, awsRegion, chans, deleteRuns, cmd,
                 goroutine, parked, poll>>

\* A feature toggle that is off: the block is skipped.
Skip(next) ==
  /\ pc' = next
  /\ UNCHANGED <<cfg, awsRegion, azs, inventory, locals, file, cloud, attached,
                 deleting, calls, ret, chans, deleteRuns, cmd,
                 goroutine, parked, poll>>

CreateStep(step, r, events, azs1, locals1) ==
  Step(events, CreateOutcome(step, r.err), Ret(step, r), cloud \cup r.created,
       attached, deleting, azs1, locals1)

\* ------------------------------------------------------ CreateResourceStack
\* Region defaulting, tag construction, SetAvailabilityZones.
CreateResourceStack_Start ==
  /\ pc = "start"
  /\ \E offered \in -1..MaxZones :
       LET region == IF cfg.Region # "" THEN cfg.Region ELSE awsRegion
           z == SetAvailabilityZones(region, cfg.AvailabilityZones,
                                     cfg.DesiredAZCount, offered)
       IN /\ cfg' = [cfg EXCEPT !.Region = region,
                                !.AvailabilityZones =
                                   IF cfg.Tags = "nil" THEN @ ELSE z.n]
          /\ awsRegion' = region
          /\ inventory' = [EmptyInventory EXCEPT !.Region = region]
          /\ IF cfg.Tags = "nil"
             THEN \* CreateMapTags assigns into the nil map
                  pc' = "panic" /\ azs' = azs
             ELSE /\ pc' = IF z.err THEN "createFailed" ELSE CreateSequence[1]
                  /\ azs' = IF z.err THEN azs ELSE [i \in 1..z.n |-> AvailabilityZone]
  /\ UNCHANGED <<locals, file, cloud, attached, deleting, calls, ret, chans, deleteRuns, cmd,
                 goroutine, parked, poll>>

CreateResourceStack_VPC ==
  /\ pc = "CreateVPC"
  /\ \E failAt \in FailAt(3) :
       LET r == CreateVPC(failAt)
           inv1 == [inventory EXCEPT !.VPCID = r.ids[1]]
           events == <<Call("CreateVPC", r.err)>>
                     \o (IF r.ids # <<>> THEN <<Inv(inv1)>> ELSE <<>>)
                     \o (IF r.err THEN <<>> ELSE <<Msg("VPC created")>>)
       IN CreateStep("CreateVPC", r, events, azs, locals)

CreateResourceStack_InternetGateway ==
  /\ pc = "CreateInternetGateway"
  /\ \E failAt \in FailAt(2) :
       LET r == CreateInternetGateway(failAt)
           inv1 == [inventory EXCEPT !.InternetGatewayID = r.ids[1]]
           events == <<Call("CreateInternetGateway", r.err)>>
                     \o (IF r.ids # <<>> THEN <<Inv(inv1)>> ELSE <<>>)
                     \o (IF r.err THEN <<>> ELSE <<Msg("Internet gateway created")>>)
       IN CreateStep("CreateInternetGateway", r, events, azs, locals)

CreateResourceStack_Subnets ==
  /\ pc = "CreateSubnets"
  /\ \E failAt \in FailAt(3 * Len(azs)) :
       LET r == CreateSubnets(azs, failAt)
           inv1 == [inventory EXCEPT !.SubnetIDs = r.privateSubnets \o r.publicSubnets]
           events == <<Call("CreateSubnets", r.err), Inv(inv1)>>
                     \o (IF r.err THEN <<>> ELSE <<Msg("Subnets created")>>)
       IN CreateStep("CreateSubnets", r, events, r.zones,
                     [locals EXCEPT !.privateSubnetIDs = r.privateSubnets,
                                    !.publicSubnetIDs = r.publicSubnets])

CreateResourceStack_ElasticIPs ==
  /\ pc = "CreateElasticIPs"
  /\ \E failAt \in FailAt(Len(locals.publicSubnetIDs)) :
       LET r == CreateElasticIPs(locals.publicSubnetIDs, failAt)
           inv1 == [inventory EXCEPT !.ElasticIPIDs = r.ids]
           events == <<Call("CreateElasticIPs", r.err), Inv(inv1)>>
                     \o (IF r.err THEN <<>> ELSE <<Msg("Elastic IPs created")>>)
       IN CreateStep("CreateElasticIPs", r, events, azs,
                     [locals EXCEPT !.elasticIPIDs = r.ids])

CreateResourceStack_NATGateways ==
  /\ pc = "CreateNATGateways"
  /\ \E failAt \in FailAt(Len(azs)) :
       LET r == CreateNATGateways(azs, locals.elasticIPIDs, failAt)
           events == <<Call("CreateNATGateways", r.err)>>
                     \o (IF r.err THEN <<>>
                         ELSE <<Msg("NAT gateways created"),
                                Msg("Waiting for NAT gateways to become active")>>)
       IN CreateStep("CreateNATGateways", r, events, azs, locals)

CreateResourceStack_WaitForNATGateways ==
  /\ pc = "WaitForNATGateways:Created"
  /\ \E observed \in WaitOutcomes :
       LET w == WaitForNATGateways(observed)
           r == [err |-> w.err, created |-> {}, ids |-> <<>>]
           \* getNATGatewayStatuses maps each listed gateway to its zone
           azs1 == IF w.err THEN azs
                   ELSE [i \in 1..Len(azs) |->
                           [azs[i] EXCEPT !.NATGatewayID = NatGatewayId(i)]]
           events == <<Call("WaitForNATGateways:Created", w.err)>>
                     \o (IF w.err THEN <<>> ELSE <<Msg("NAT gateways ready")>>)
       IN CreateStep("WaitForNATGateways:Created", r, events, azs1, locals)

CreateResourceStack_RouteTables ==
  /\ pc = "CreateRouteTables"
  /\ \E failAt \in FailAt(2 + 4 * Len(azs)) :
       LET r == CreateRouteTables(azs, failAt)
           inv1 == [inventory EXCEPT !.PrivateRouteTableIDs = r.privateRouteTables]
           inv2 == [inv1 EXCEPT !.PublicRouteTableID = r.publicRouteTable]
           \* *publicRouteTable.RouteTableId with a nil RouteTableId panics
           events == <<Call("CreateRouteTables", r.err), Inv(inv1)>>
                     \o (IF r.publicNilId THEN <<>> ELSE <<Inv(inv2)>>)
                     \o (IF r.err THEN <<>> ELSE <<Msg("Route tables created")>>)
       IN Step(events,
               IF r.publicNilId THEN "panic" ELSE CreateOutcome("CreateRouteTables", r.err),
               Ret("CreateRouteTables", r), cloud \cup r.created, attached, deleting,
               azs, locals)

\* ---------------------------------------------------------- delete adapters
\* Every delete adapter yields [err, deleted, initiated, detached, notFound, n]:
\* deleted the resources the provider removed, initiated the resources whose
\* asynchronous deletion it started, detached the role-policy attachments it
\* removed, notFound whether the provider answered "not found", last the
\* provider's answer to the last call ("none", "ok", "NotFound", "APIError"),
\* n the number of provider calls made.  The provider answers a call on a resource that
\* does not exist with "not found"; failAt is the call answered with another
\* API error.
NoDelete ==
  [err |-> FALSE, deleted |-> {}, initiated |-> {}, detached |-> {},
   notFound |-> FALSE, last |-> "none", n |-> 0]

\* A delete loop that returns the provider's NotFound answer as an error.
RECURSIVE DeleteLoopNotFoundIsError(_, _, _, _, _)
DeleteLoopNotFoundIsError(ids, i, existing, failAt, acc) ==
  IF i > Len(ids) THEN acc
  ELSE IF failAt = acc.n + 1
  THEN [acc EXCEPT !.err = TRUE, !.last = "APIError", !.n = @ + 1]
  ELSE IF ids[i] \notin existing \ acc.deleted
  THEN [acc EXCEPT !.err = TRUE, !.notFound = TRUE, !.last = "NotFound", !.n = @ + 1]
  ELSE DeleteLoopNotFoundIsError(ids, i + 1, existing, failAt,
         [acc EXCEPT !.deleted = @ \cup {ids[i]}, !.last = "ok", !.n = @ + 1])

\* for _, id := range ids { delete; NotFound: return nil; error: return err }
RECURSIVE DeleteLoop(_, _, _, _, _)
DeleteLoop(ids, i, existing, failAt, acc) ==
  IF i > Len(ids) THEN acc
  ELSE IF failAt = acc.n + 1
  THEN [acc EXCEPT !.err = TRUE, !.last = "APIError", !.n = @ + 1]
  ELSE IF ids[i] \notin existing \ acc.deleted
  THEN [acc EXCEPT !.notFound = TRUE, !.last = "NotFound", !.n = @ + 1]
  ELSE DeleteLoop(ids, i + 1, existing, failAt,
                  [acc EXCEPT !.deleted = @ \cup {ids[i]}, !.last = "ok", !.n = @ + 1])

DeleteVPC(vpcID, existing, failAt) ==
  IF vpcID = Empty THEN NoDelete
  ELSE DeleteLoop(<<vpcID>>, 1, existing, failAt, NoDelete)

\* DetachInternetGateway, DeleteInternetGateway; each returns nil on NotFound.
DeleteInternetGateway(internetGatewayID, vpcID, existing, failAt) ==
  IF internetGatewayID = Empty THEN NoDelete
  ELSE IF failAt = 1 THEN [NoDelete EXCEPT !.err = TRUE, !.last = "APIError", !.n = 1]
  ELSE IF internetGatewayID \notin existing
  THEN [NoDelete EXCEPT !.notFound = TRUE, !.last = "NotFound", !.n = 1]
  ELSE DeleteLoop(<<internetGatewayID>>, 1, existing, failAt,
                  [NoDelete EXCEPT !.last = "ok", !.n = 1])

DeleteSubnets(subnetIDs, existing, failAt) ==
  IF Len(subnetIDs) = 0 THEN NoDelete
  ELSE DeleteLoop(subnetIDs, 1, existing, failAt, NoDelete)

DeleteElasticIPs(elasticIPIDs, existing, failAt) ==
  IF Len(elasticIPIDs) = 0 THEN NoDelete
  ELSE DeleteLoop(elasticIPIDs, 1, existing, failAt, NoDelete)

DeleteRouteTables(privateRouteTableIDs, publicRouteTable, existing, failAt) ==
  LET allRouteTableIDs ==
        IF publicRouteTable = Empty THEN privateRouteTableIDs
        ELSE Append(privateRouteTableIDs, publicRouteTable)
  IN IF Len(privateRouteTableIDs) = 0 /\ publicRouteTable = Empty THEN NoDelete
     ELSE DeleteLoop(allRouteTableIDs, 1, existing, failAt, NoDelete)

\* The NAT gateways DescribeNatGateways lists for the VPC, in zone order.
ListNATGateways(existing) ==
  SelectSeq([i \in 1..MaxZones |-> NatGatewayId(i)], LAMBDA g : g \in existing)

\* getNATGatewayStatuses, then DeleteNatGateway for every listed gateway; the
\* deletion of a NAT gateway completes asynchronously.
DeleteNATGateways(vpcID, existing, failAt) ==
  IF vpcID = Empty THEN NoDelete
  ELSE IF failAt = 1 THEN [NoDelete EXCEPT !.err = TRUE, !.last = "APIError", !.n = 1]
  ELSE LET d == DeleteLoop(ListNATGateways(existing), 1, existing, failAt,
                           [NoDelete EXCEPT !.last = "ok", !.n = 1])
       IN [d EXCEPT !.deleted = {}, !.initiated = d.deleted]

\* The provider calls of DeleteRoles in order: for every role with a name,
\* DetachRolePolicy for each of its policies, then DeleteRole.
RECURSIVE RoleCalls(_, _)
RoleCalls(roles, i) ==
  IF i > Len(roles) THEN <<>>
  ELSE (IF roles[i].RoleName = Empty THEN <<>>
        ELSE [k \in 1..Len(roles[i].RolePolicyARNs) |->
                [call |-> "detach", role |-> roles[i].RoleName,
                 policy |-> roles[i].RolePolicyARNs[k]]]
             \o <<[call |-> "delete", role |-> roles[i].RoleName, policy |-> Empty]>>)
       \o RoleCalls(roles, i + 1)

RECURSIVE DeleteRolesLoop(_, _, _, _, _, _)
DeleteRolesLoop(rcalls, i, existing, attachments, failAt, acc) ==
  IF i > Len(rcalls) THEN acc
  ELSE IF failAt = i THEN [acc EXCEPT !.err = TRUE, !.last = "APIError", !.n = i]
  ELSE LET c == rcalls[i]
       IN IF c.call = "detach"
          THEN IF <<c.role, c.policy>> \notin attachments \ acc.detached
               THEN [acc EXCEPT !.notFound = TRUE, !.last = "NotFound", !.n = i]
               ELSE DeleteRolesLoop(rcalls, i + 1, existing, attachments, failAt,
                      [acc EXCEPT !.detached = @ \cup {<<c.role, c.policy>>},
                                  !.last = "ok", !.n = i])
          ELSE IF c.role \notin existing \ acc.deleted
               THEN [acc EXCEPT !.notFound = TRUE, !.last = "NotFound", !.n = i]
               ELSE DeleteRolesLoop(rcalls, i + 1, existing, attachments, failAt,
                      [acc EXCEPT !.deleted = @ \cup {c.role}, !.last = "ok", !.n = i])

DeleteRoles(roles, existing, attachments, failAt) ==
  IF Len(roles) = 0 THEN NoDelete
  ELSE DeleteRolesLoop(RoleCalls(roles, 1), 1, existing, attachments, failAt, NoDelete)

\* for _, arn := range policyARNs { delete; NoSuchEntity: continue }
RECURSIVE DeletePoliciesLoop(_, _, _, _, _)
DeletePoliciesLoop(policyARNs, i, existing, failAt, acc) ==
  IF i > Len(policyARNs) THEN acc
  ELSE IF failAt = i THEN [acc EXCEPT !.err = TRUE, !.last = "APIError", !.n = i]
  ELSE IF policyARNs[i] \notin existing \ acc.deleted
  THEN DeletePoliciesLoop(policyARNs, i + 1, existing, failAt,
                          [acc EXCEPT !.notFound = TRUE, !.last = "NotFound", !.n = i])
  ELSE DeletePoliciesLoop(policyARNs, i + 1, existing, failAt,
                          [acc EXCEPT !.deleted = @ \cup {policyARNs[i]},
                                      !.last = "ok", !.n = i])

DeletePolicies(policyARNs, existing, failAt) ==
  IF Len(policyARNs) = 0 THEN NoDelete
  ELSE DeletePoliciesLoop(policyARNs, 1, existing, failAt, NoDelete)

\* DeleteCluster; the deletion completes asynchronously.
DeleteCluster(clusterName, existing, failAt) ==
  IF clusterName = Empty THEN NoDelete
  ELSE LET d == DeleteLoop(<<clusterName>>, 1, existing, failAt, NoDelete)
       IN [d EXCEPT !.deleted = {}, !.initiated = d.deleted]

\* DeleteNodegroup per name; the deletion completes asynchronously.
DeleteNodeGroups(clusterName, nodeGroupNames, existing, failAt) ==
  IF clusterName = Empty \/ Len(nodeGroupNames) = 0 THEN NoDelete
  ELSE LET d == DeleteLoop(nodeGroupNames, 1, existing, failAt, NoDelete)
       IN [d EXCEPT !.deleted = {}, !.initiated = d.deleted]

DeleteOIDCProvider(oidcProviderARN, existing, failAt) ==
  IF oidcProviderARN = Empty THEN NoDelete
  ELSE DeleteLoop(<<oidcProviderARN>>, 1, existing, failAt, NoDelete)

\* ------------------------------------- CreateResourceStack, IAM and cluster
CreateResourceStack_DNSManagementPolicy ==
  /\ pc = "CreateDNSManagementPolicy"
  /\ IF cfg.DNSManagement
     THEN \E failAt \in FailAt(1) :
       LET r == CreateDNSManagementPolicy(failAt)
           inv1 == [inventory EXCEPT !.PolicyARNs = Append(@, r.ids[1])]
           events == <<Call("CreateDNSManagementPolicy", r.err)>>
                     \o (IF r.ids # <<>> THEN <<Inv(inv1)>> ELSE <<>>)
                     \o (IF r.err THEN <<>> ELSE <<Msg("IAM policy created")>>)
       IN CreateStep("CreateDNSManagementPolicy", r, events, azs,
                     IF r.err THEN locals
                     ELSE [locals EXCEPT !.createdDNSPolicy = r.ids[1]])
     ELSE Skip(AfterCreate("CreateDNSManagementPolicy"))

CreateResourceStack_ClusterAutoscalingPolicy ==
  /\ pc = "CreateClusterAutoscalingPolicy"
  /\ IF cfg.ClusterAutoscaling
     THEN \E failAt \in FailAt(1) :
       LET r == CreateClusterAutoscalingPolicy(failAt)
           inv1 == [inventory EXCEPT !.PolicyARNs = Append(@, r.ids[1])]
           events == <<Call("CreateClusterAutoscalingPolicy", r.err)>>
                     \o (IF r.ids # <<>> THEN <<Inv(inv1)>> ELSE <<>>)
                     \o (IF r.err THEN <<>> ELSE <<Msg("IAM policy created")>>)
       IN CreateStep("CreateClusterAutoscalingPolicy", r, events, azs,
                     IF r.err THEN locals
                     ELSE [locals EXCEPT !.createdClusterAutoscalingPolicy = r.ids[1]])
     ELSE Skip(AfterCreate("CreateClusterAutoscalingPolicy"))

CreateResourceStack_Roles ==
  /\ pc = "CreateRoles"
  /\ \E failAt \in FailAt(6) :
       LET r == CreateRoles(failAt)
           inv1 == [inventory EXCEPT
                      !.ClusterRole = RoleInventory(ClusterRoleName, <<ClusterPolicyARN>>)]
           inv2 == [inv1 EXCEPT
                      !.WorkerRole = RoleInventory(WorkerRoleName, getWorkerPolicyARNs)]
           events == <<Call("CreateRoles", r.err)>>
                     \o (IF Len(r.ids) >= 1 THEN <<Inv(inv1)>> ELSE <<>>)
                     \o (IF Len(r.ids) >= 2 THEN <<Inv(inv2)>> ELSE <<>>)
                     \o (IF r.err THEN <<>> ELSE <<Msg("IAM roles created")>>)
       IN Step(events, CreateOutcome("CreateRoles", r.err), Ret("CreateRoles", r),
               cloud \cup r.created, attached \cup r.attached, deleting, azs, locals)

CreateResourceStack_Cluster ==
  /\ pc = "CreateCluster"
  /\ \E failAt \in FailAt(1) :
       LET r == CreateCluster(failAt)
           inv1 == [inventory EXCEPT !.Cluster.ClusterName = r.ids[1]]
           events == <<Call("CreateCluster", r.err)>>
                     \o (IF r.ids # <<>> THEN <<Inv(inv1)>> ELSE <<>>)
                     \o (IF r.err THEN <<>>
                         ELSE <<Msg("EKS cluster created"),
                                Msg("Waiting for EKS cluster to become active")>>)
       IN CreateStep("CreateCluster", r, events, azs, locals)

CreateResourceStack_WaitForCluster ==
  /\ pc = "WaitForCluster:Created"
  /\ \E observed \in WaitOutcomes :
       LET w == WaitForCluster(ClusterName, observed)
           r == [err |-> w.err, created |-> {}, ids |-> <<>>]
           oidcIssuer == IF w.err THEN Empty ELSE OIDCIssuer
           inv1 == [inventory EXCEPT !.Cluster.OIDCProviderURL = oidcIssuer]
           events == <<Call("WaitForCluster:Created", w.err)>>
                     \o (IF oidcIssuer # Empty THEN <<Inv(inv1)>> ELSE <<>>)
                     \o (IF w.err THEN <<>> ELSE <<Msg("EKS cluster ready")>>)
       IN CreateStep("WaitForCluster:Created", r, events, azs,
                     [locals EXCEPT !.oidcIssuer = oidcIssuer])

CreateResourceStack_NodeGroups ==
  /\ pc = "CreateNodeGroups"
  /\ \E failAt \in FailAt(1) :
       LET r == CreateNodeGroups(failAt)
           inv1 == [inventory EXCEPT !.NodeGroupNames = r.ids]
           \* the adapter returns &nodeGroups on every path
           events == <<Call("CreateNodeGroups", r.err), Inv(inv1)>>
                     \o (IF r.err THEN <<>>
                         ELSE <<Msg("EKS node group created"),
                                Msg("Waiting for EKS node group to become active")>>)
       IN CreateStep("CreateNodeGroups", r, events, azs, locals)

CreateResourceStack_WaitForNodeGroups ==
  /\ pc = "WaitForNodeGroups:Created"
  /\ \E observed \in WaitOutcomes :
       LET w == WaitForNodeGroups(inventory.NodeGroupNames, observed)
           r == [err |-> w.err, created |-> {}, ids |-> <<>>]
           events == <<Call("WaitForNodeGroups:Created", w.err)>>
                     \o (IF w.err THEN <<>> ELSE <<Msg("EKS node group ready")>>)
       IN CreateStep("WaitForNodeGroups:Created", r, events, azs, locals)

CreateResourceStack_OIDCProvider ==
  /\ pc = "CreateOIDCProvider"
  /\ \E failAt \in FailAt(2) :
       LET r == CreateOIDCProvider(failAt)
           inv1 == [inventory EXCEPT !.OIDCProviderARN = r.ids[1]]
           events == <<Call("CreateOIDCProvider", r.err)>>
                     \o (IF r.ids # <<>> THEN <<Inv(inv1)>> ELSE <<>>)
                     \o (IF r.err THEN <<>> ELSE <<Msg("OIDC provider created")>>)
       IN CreateStep("CreateOIDCProvider", r, events, azs, locals)

\* A service-account role block: the role is recorded with the given policy.
ServiceAccountRoleStep(step, r, inv1) ==
  LET events == <<Call(step, r.err)>>
                \o (IF r.ids # <<>> THEN <<Inv(inv1)>> ELSE <<>>)
                \o (IF r.err THEN <<>> ELSE <<Msg("IAM role created")>>)
  IN Step(events, CreateOutcome(step, r.err),
          [Ret(step, r) EXCEPT !.boundary = r.boundary],
          cloud \cup r.created, attached \cup r.attached, deleting, azs, locals)

\* A guard that lets the run go on to the next block.
MissingPolicyIgnored ==
  /\ pc' = AfterCreate(pc)
  /\ UNCHANGED <<cfg, awsRegion, azs, inventory, locals, file, cloud, attached,
                 deleting, calls, ret, chans, deleteRuns, cmd,
                 goroutine, parked, poll>>

\* return errors.New("no ... policy ARN to attach ...") before any adapter
MissingPolicy ==
  /\ pc' = "createFailed"
  /\ UNCHANGED <<cfg, awsRegion, azs, inventory, locals, file, cloud, attached,
                 deleting, calls, ret, chans, deleteRuns, cmd,
                 goroutine, parked, poll>>

CreateResourceStack_DNSManagementRole ==
  /\ pc = "CreateDNSManagementRole"
  /\ IF ~cfg.DNSManagement THEN Skip(AfterCreate("CreateDNSManagementRole"))
     ELSE IF locals.createdDNSPolicy = Empty THEN MissingPolicy
     ELSE \E failAt \in FailAt(2) :
       ServiceAccountRoleStep("CreateDNSManagementRole",
         CreateDNSManagementRole(locals.createdDNSPolicy, failAt),
         [inventory EXCEPT !.DNSManagementRole =
            RoleInventory(DNSManagementRoleName, <<locals.createdDNSPolicy>>)])

CreateResourceStack_ClusterAutoscalingRole ==
  /\ pc = "CreateClusterAutoscalingRole"
  /\ IF ~cfg.ClusterAutoscaling THEN Skip(AfterCreate("CreateClusterAutoscalingRole"))
     ELSE IF locals.createdClusterAutoscalingPolicy = Empty THEN MissingPolicy
     ELSE \E failAt \in FailAt(2) :
       ServiceAccountRoleStep("CreateClusterAutoscalingRole",
         CreateClusterAutoscalingRole(locals.createdClusterAutoscalingPolicy, failAt),
         [inventory EXCEPT !.ClusterAutoscalingRole =
            RoleInventory(ClusterAutoscalingRoleName,
                          <<locals.createdClusterAutoscalingPolicy>>)])

CreateResourceStack_StorageManagementRole ==
  /\ pc = "CreateStorageManagementRole"
  /\ \E failAt \in FailAt(2) :
       ServiceAccountRoleStep("CreateStorageManagementRole",
         CreateStorageManagementRole(failAt),
         [inventory EXCEPT !.StorageManagementRole =
            RoleInventory(StorageManagementRoleName, <<CSIDriverPolicyARN>>)])

CreateResourceStack_EBSStorageAddon ==
  /\ pc = "CreateEBSStorageAddon"
  /\ \E failAt \in FailAt(1) :
       LET r0 == CreateEBSStorageAddon(failAt)
           \* the addon identifier is used for the message only
           events == <<Call("CreateEBSStorageAddon", r0.err)>>
                     \o (IF r0.err THEN <<>>
                         ELSE <<Msg("EBS storage addon created"),
                                Msg("EKS cluster creation complete")>>)
       IN CreateStep("CreateEBSStorageAddon", r0, events, azs, locals)

\* ------------------------------------------------------ DeleteResourceStack
DeleteRet(step, args, d) ==
  [NoRet EXCEPT !.op = step, !.args = args, !.err = d.err,
                !.notFound = d.notFound, !.last = d.last, !.n = d.n]

DeleteStep(step, args, d, events) ==
  Step(events, DeleteOutcome(step, d.err), DeleteRet(step, args, d),
       cloud \ d.deleted, attached \ d.detached,
       (deleting \cup d.initiated) \ d.deleted, azs, locals)

\* A step that clears its field and sends the inventory whatever the adapter
\* returned.
DeleteEventsClearingAlways(step, d, inv1) ==
  <<Call(step, d.err), Msg(step), Inv(inv1)>>

\* call; on success: message, clear the field, sendInventory
DeleteEvents(step, d, inv1) ==
  <<Call(step, d.err)>>
  \o (IF d.err THEN <<>> ELSE <<Msg(step), Inv(inv1)>>)

DeleteResourceStack_OIDCProvider ==
  /\ pc = "DeleteOIDCProvider"
  /\ \E failAt \in FailAt(1) :
       LET d == DeleteOIDCProvider(inventory.OIDCProviderARN, cloud, failAt)
       IN DeleteStep("DeleteOIDCProvider", <<inventory.OIDCProviderARN>>, d,
            DeleteEvents("DeleteOIDCProvider", d,
                         [inventory EXCEPT !.OIDCProviderARN = Empty]))

DeleteResourceStack_NodeGroups ==
  /\ pc = "DeleteNodeGroups"
  /\ \E failAt \in FailAt(Len(inventory.NodeGroupNames)) :
       LET d == DeleteNodeGroups(inventory.Cluster.ClusterName,
                                 inventory.NodeGroupNames, cloud, failAt)
           events == <<Call("DeleteNodeGroups", d.err)>>
                     \o (IF d.err THEN <<>>
                         ELSE <<Msg("Node groups deletion initiated"),
                                Msg("Waiting for node groups to be deleted")>>)
       IN DeleteStep("DeleteNodeGroups", inventory.NodeGroupNames, d, events)

\* A wait for deletion meets its condition when the provider has finished
\* every deletion it was asked for; gone: the resources that disappear.
WaitDeleted(step, w, waited, gone, events) ==
  Step(events, DeleteOutcome(step, w.err),
       [NoRet EXCEPT !.op = step, !.args = waited, !.err = w.err],
       IF w.polled /\ ~w.err THEN cloud \ gone ELSE cloud,
       attached,
       IF w.polled /\ ~w.err THEN deleting \ gone ELSE deleting,
       azs, locals)

CanBeGone(waited) == (waited \cap cloud) \subseteq deleting

DeleteResourceStack_WaitForNodeGroups ==
  /\ pc = "WaitForNodeGroups:Deleted"
  /\ \E observed \in WaitOutcomes :
       LET names == inventory.NodeGroupNames
           w == WaitForNodeGroups(names, observed)
           events == <<Call("WaitForNodeGroups:Deleted", w.err)>>
                     \o (IF w.err THEN <<>>
                         ELSE <<Msg("Node groups deletion complete"),
                                Inv([inventory EXCEPT !.NodeGroupNames = <<>>])>>)
       IN /\ observed = "met" => CanBeGone(Range(names))
          /\ WaitDeleted("WaitForNodeGroups:Deleted", w, names,
                         Range(names) \cap deleting, events)

DeleteResourceStack_Cluster ==
  /\ pc = "DeleteCluster"
  /\ \E failAt \in FailAt(1) :
       LET d == DeleteCluster(inventory.Cluster.ClusterName, cloud, failAt)
           events == <<Call("DeleteCluster", d.err)>>
                     \o (IF d.err THEN <<>>
                         ELSE <<Msg("EKS cluster deletion initiated"),
                                Msg("Waiting for EKS cluster to be deleted")>>)
       IN DeleteStep("DeleteCluster", <<inventory.Cluster.ClusterName>>, d, events)

DeleteResourceStack_WaitForCluster ==
  /\ pc = "WaitForCluster:Deleted"
  /\ \E observed \in WaitOutcomes :
       LET name == inventory.Cluster.ClusterName
           w == WaitForCluster(name, observed)
           events == <<Call("WaitForCluster:Deleted", w.err)>>
                     \o (IF w.err THEN <<>>
                         ELSE <<Msg("EKS cluster deletion complete"),
                                Inv([inventory EXCEPT !.Cluster = EmptyCluster])>>)
       IN /\ observed = "met" => CanBeGone({name})
          \* the addons of a cluster are deleted with it
          /\ WaitDeleted("WaitForCluster:Deleted", w, <<name>>,
                         IF name \in deleting THEN {name, EBSStorageAddonName} ELSE {},
                         events)

DeleteResourceStack_Roles ==
  /\ pc = "DeleteRoles"
  /\ LET iamRoles == <<inventory.ClusterRole, inventory.WorkerRole,
                       inventory.DNSManagementRole, inventory.ClusterAutoscalingRole,
                       inventory.StorageManagementRole>>
     IN \E failAt \in FailAt(Len(RoleCalls(iamRoles, 1))) :
          LET d == DeleteRoles(iamRoles, cloud, attached, failAt)
              names == [i \in 1..Len(iamRoles) |-> iamRoles[i].RoleName]
          IN DeleteStep("DeleteRoles", names, d,
               DeleteEvents("DeleteRoles", d,
                 [inventory EXCEPT !.ClusterRole = EmptyRole,
                                   !.WorkerRole = EmptyRole,
                                   !.DNSManagementRole = EmptyRole,
                                   !.ClusterAutoscalingRole = EmptyRole,
                                   !.StorageManagementRole = EmptyRole]))

DeleteResourceStack_Policies ==
  /\ pc = "DeletePolicies"
  /\ \E failAt \in FailAt(Len(inventory.PolicyARNs)) :
       LET d == DeletePolicies(inventory.PolicyARNs, cloud, failAt)
       IN DeleteStep("DeletePolicies", inventory.PolicyARNs, d,
            DeleteEvents("DeletePolicies", d, [inventory EXCEPT !.PolicyARNs = <<>>]))

DeleteResourceStack_NATGateways ==
  /\ pc = "DeleteNATGateways"
  /\ \E failAt \in FailAt(1 + Len(ListNATGateways(cloud))) :
       LET d == DeleteNATGateways(inventory.VPCID, cloud, failAt)
           events == <<Call("DeleteNATGateways", d.err)>>
                     \o (IF d.err THEN <<>>
                         ELSE <<Msg("NAT gateways deletion initiated"),
                                Msg("Waiting for NAT gateways to be deleted")>>)
       IN DeleteStep("DeleteNATGateways", <<inventory.VPCID>>, d, events)

DeleteResourceStack_WaitForNATGateways ==
  /\ pc = "WaitForNATGateways:Deleted"
  /\ \E observed \in WaitOutcomes :
       LET listed == Range(ListNATGateways(cloud))
           w == [err |-> WaitForNATGateways(observed).err, polled |-> TRUE]
           events == <<Call("WaitForNATGateways:Deleted", w.err)>>
                     \o (IF w.err THEN <<>>
                         ELSE <<Msg("NAT gateway deletion complete")>>)
       IN /\ observed = "met" => CanBeGone(listed)
          /\ WaitDeleted("WaitForNATGateways:Deleted", w, <<inventory.VPCID>>,
                         listed, events)

DeleteResourceStack_InternetGateway ==
  /\ pc = "DeleteInternetGateway"
  /\ \E failAt \in FailAt(2) :
       LET d == DeleteInternetGateway(inventory.InternetGatewayID, inventory.VPCID,
                                      cloud, failAt)
       IN DeleteStep("DeleteInternetGateway", <<inventory.InternetGatewayID>>, d,
            DeleteEvents("DeleteInternetGateway", d,
                         [inventory EXCEPT !.InternetGatewayID = Empty]))

DeleteResourceStack_ElasticIPs ==
  /\ pc = "DeleteElasticIPs"
  /\ \E failAt \in FailAt(Len(inventory.ElasticIPIDs)) :
       LET d == DeleteElasticIPs(inventory.ElasticIPIDs, cloud, failAt)
       IN DeleteStep("DeleteElasticIPs", inventory.ElasticIPIDs, d,
            DeleteEvents("DeleteElasticIPs", d, [inventory EXCEPT !.ElasticIPIDs = <<>>]))

DeleteResourceStack_Subnets ==
  /\ pc = "DeleteSubnets"
  /\ \E failAt \in FailAt(Len(inventory.SubnetIDs)) :
       LET d == DeleteSubnets(inventory.SubnetIDs, cloud, failAt)
       IN DeleteStep("DeleteSubnets", inventory.SubnetIDs, d,
            DeleteEvents("DeleteSubnets", d, [inventory EXCEPT !.SubnetIDs = <<>>]))

DeleteResourceStack_RouteTables ==
  /\ pc = "DeleteRouteTables"
  /\ \E failAt \in FailAt(Len(inventory.PrivateRouteTableIDs) + 1) :
       LET d == DeleteRouteTables(inventory.PrivateRouteTableIDs,
                                  inventory.PublicRouteTableID, cloud, failAt)
           args == Append(inventory.PrivateRouteTableIDs, inventory.PublicRouteTableID)
       IN DeleteStep("DeleteRouteTables", args, d,
            DeleteEvents("DeleteRouteTables", d,
                         [inventory EXCEPT !.PrivateRouteTableIDs = <<>>,
                                           !.PublicRouteTableID = Empty]))

\* The "VPC deleted" message is sent before DeleteVPC is called.
DeleteResourceStack_VPC ==
  /\ pc = "DeleteVPC"
  /\ \E failAt \in FailAt(1) :
       LET d == DeleteVPC(inventory.VPCID, cloud, failAt)
           events == <<Msg("VPC deleted"), Call("DeleteVPC", d.err)>>
                     \o (IF d.err THEN <<>>
                         ELSE <<Inv([inventory EXCEPT !.VPCID = Empty])>>)
       IN DeleteStep("DeleteVPC", <<inventory.VPCID>>, d, events)

\* ----------------------------------------------------------------- commands
\* DeleteResourceStack entry: c.AWSConfig.Region = inventory.Region.
StartDelete(inv) ==
  /\ inventory' = inv
  /\ awsRegion' = inv.Region
  /\ calls' = Append(calls, Run(inv))
  /\ pc' = DeleteSequence[1]

\* createCmd after CreateResourceStack returned an error: ReadInventory, then
\* DeleteResourceStack on what the file holds.
createCmd_Rollback ==
  /\ pc = "createFailed"
  /\ cmd = "createCmd"
  /\ goroutine = "main"
  /\ IF file = NoFile
     THEN pc' = "exit" /\ UNCHANGED <<inventory, awsRegion, calls>>
     ELSE StartDelete(ReadInventory(file))
  /\ UNCHANGED <<cfg, azs, locals, file, cloud, attached, deleting, ret,
                 chans, deleteRuns, cmd,
                 goroutine, parked, poll>>

\* A library caller deletes with the last inventory snapshot it received.
Library_DeleteResourceStack ==
  /\ pc \in {"createFailed", "created"}
  /\ cmd = "library"
  /\ file # NoFile
  /\ StartDelete(ReadInventory(file))
  /\ UNCHANGED <<cfg, azs, locals, file, cloud, attached, deleting, ret,
                 chans, deleteRuns, cmd,
                 goroutine, parked, poll>>

\* deleteCmd, a new process: ReadInventory, CreateResourceClient, the two
\* consumer goroutines, DeleteResourceStack.
deleteCmd ==
  /\ pc \in {"created", "deleteFailed", "panic"}
  /\ cmd \in {"createCmd", "deleteCmd"}
  /\ deleteRuns < MaxDeleteRuns
  /\ deleteRuns' = deleteRuns + 1
  /\ cmd' = "deleteCmd"
  /\ chans' = CreateResourceClient
  /\ IF file = NoFile
     THEN pc' = "exit" /\ UNCHANGED <<inventory, awsRegion, calls>>
     ELSE StartDelete(ReadInventory(file))
  /\ UNCHANGED <<cfg, azs, locals, file, cloud, attached, deleting, ret,
                 goroutine, parked, poll>>

\* os.Remove of the inventory file after DeleteResourceStack returned nil.
RemoveInventoryFile ==
  /\ pc = "deleteReturned"
  /\ cmd \in {"createCmd", "deleteCmd"}
  /\ goroutine = "main"
  /\ file' = NoFile
  /\ pc' = IF cmd = "createCmd" THEN "rolledBack" ELSE "deleted"
  /\ UNCHANGED <<cfg, awsRegion, azs, inventory, locals, cloud, attached, deleting,
                 calls, ret, chans, deleteRuns, cmd,
                 goroutine, parked, poll>>

Next ==
  \/ CreateResourceStack_Start
  \/ CreateResourceStack_VPC
  \/ CreateResourceStack_InternetGateway
  \/ CreateResourceStack_Subnets
  \/ CreateResourceStack_ElasticIPs
  \/ CreateResourceStack_NATGateways
  \/ CreateResourceStack_WaitForNATGateways
  \/ CreateResourceStack_RouteTables
  \/ CreateResourceStack_DNSManagementPolicy
  \/ CreateResourceStack_ClusterAutoscalingPolicy
  \/ CreateResourceStack_Roles
  \/ CreateResourceStack_Cluster
  \/ CreateResourceStack_WaitForCluster
  \/ CreateResourceStack_NodeGroups
  \/ CreateResourceStack_WaitForNodeGroups
  \/ CreateResourceStack_OIDCProvider
  \/ CreateResourceStack_DNSManagementRole
  \/ CreateResourceStack_ClusterAutoscalingRole
  \/ CreateResourceStack_StorageManagementRole
  \/ CreateResourceStack_EBSStorageAddon
  \/ createCmd_Rollback
  \/ Library_DeleteResourceStack
  \/ deleteCmd
  \/ RemoveInventoryFile
  \/ DeleteResourceStack_OIDCProvider
  \/ DeleteResourceStack_NodeGroups
  \/ DeleteResourceStack_WaitForNodeGroups
  \/ DeleteResourceStack_Cluster
  \/ DeleteResourceStack_WaitForCluster
  \/ DeleteResourceStack_Roles
  \/ DeleteResourceStack_Policies
  \/ DeleteResourceStack_NATGateways
  \/ DeleteResourceStack_WaitForNATGateways
  \/ DeleteResourceStack_InternetGateway
  \/ DeleteResourceStack_ElasticIPs
  \/ DeleteResourceStack_Subnets
  \/ DeleteResourceStack_RouteTables
  \/ DeleteResourceStack_VPC

Spec == Init /\ [][Next]_vars

TypeOK ==
  /\ pc \in Range(CreateSequence) \cup Range(DeleteSequence)
            \cup {"start", "created", "createFailed", "panic", "blocked", "exit",
                  "deleteReturned", "deleteFailed", "rolledBack", "deleted"}
  /\ deleting \subseteq cloud
  /\ deleteRuns \in 0..MaxDeleteRuns

\* ------------------------------------------------------------ history views
IsRunMark(i) == calls[i].t = "run"

\* The events of the CreateResourceStack run: those before the first
\* DeleteResourceStack entry.
CreateRunEvents ==
  LET marks == {i \in 1..Len(calls) : IsRunMark(i)}
      first == IF marks = {} THEN Len(calls) + 1
               ELSE CHOOSE i \in marks : \A j \in marks : i <= j
  IN SubSeq(calls, 1, first - 1)

\* The index of the entry of the latest DeleteResourceStack run, 0 if none.
LastRunMark ==
  LET marks == {i \in 1..Len(calls) : IsRunMark(i)}
  IN IF marks = {} THEN 0 ELSE CHOOSE i \in marks : \A j \in marks : j <= i

\* The events of the latest DeleteResourceStack run.
DeleteRunEvents ==
  IF LastRunMark = 0 THEN <<>> ELSE SubSeq(calls, LastRunMark + 1, Len(calls))

CallsOf(events) == SelectSeq(events, LAMBDA e : e.t = "call")
OpsOf(events) == [i \in 1..Len(events) |-> events[i].op]

\* Every resource identifier an inventory records.
InventoryIds(inv) ==
  ({inv.VPCID, inv.InternetGatewayID, inv.PublicRouteTableID,
    inv.ClusterRole.RoleName, inv.WorkerRole.RoleName, inv.DNSManagementRole.RoleName,
    inv.ClusterAutoscalingRole.RoleName, inv.StorageManagementRole.RoleName,
    inv.Cluster.ClusterName, inv.OIDCProviderARN}
   \cup Range(inv.SubnetIDs) \cup Range(inv.ElasticIPIDs)
   \cup Range(inv.PrivateRouteTableIDs) \cup Range(inv.PolicyARNs)
   \cup Range(inv.NodeGroupNames)) \ {Empty}

\* Resources the inventory has no field for: NAT gateways are found through
\* the VPC, the storage addon belongs to the cluster.
NotInventoried == {NatGatewayId(i) : i \in 1..MaxZones} \cup {EBSStorageAddonName}

\* ------------------------------------------------------------------- claims

\* C1: when a create run has failed at some step, the inventory holds exactly
\* the identifiers of the resources that were created (those of the earlier
\* steps and those the failing step had obtained): none missing, none extra.
InventoryExactAtFailure ==
  pc = "createFailed" => InventoryIds(inventory) = cloud \ NotInventoried

\* C2: after a failed create run followed by a DeleteResourceStack run on the
\* captured inventory in which every delete adapter succeeded, no resource
\* created by the run remains in the account.
RollbackLeavesNothing ==
  pc = "rolledBack" => cloud = {}

\* C3: a Create* adapter that fails returns, with the error, the identifiers
\* of all resources it created during that call.
CreateReturnsAllCreated ==
  (ret.op \in Range(CreateSequence) /\ ret.err) => ret.created \subseteq ret.returned

\* ------------------------------------------------- delete adapters, alone
\* Each delete adapter applied on its own, up to MaxAdapterCalls times in a
\* row to the same arguments, from any account state over the resources the
\* arguments name.  ret.op and ret.args hold the adapter and its arguments.
AdapterInputs ==
  {[op |-> "DeleteVPC", args |-> a] : a \in {<<Empty>>, <<VpcId>>}}
  \cup {[op |-> "DeleteInternetGateway", args |-> a] : a \in {<<Empty>>, <<IgwId>>}}
  \cup {[op |-> "DeleteSubnets", args |-> a] :
          a \in {<<>>, <<PrivateSubnetId(1), PublicSubnetId(1)>>}}
  \cup {[op |-> "DeleteElasticIPs", args |-> a] :
          a \in {<<>>, <<ElasticIPId(1)>>, <<ElasticIPId(1), ElasticIPId(2)>>}}
  \cup {[op |-> "DeleteRouteTables", args |-> a] :
          a \in {<<Empty>>, <<PrivateRouteTableId(1), Empty>>,
                 <<PrivateRouteTableId(1), PublicRouteTableId>>}}
  \cup {[op |-> "DeleteNATGateways", args |-> a] : a \in {<<Empty>>, <<VpcId>>}}
  \cup {[op |-> "DeleteRoles", args |-> a] :
          a \in {<<>>, <<Empty, Empty>>, <<ClusterRoleName, WorkerRoleName>>}}
  \cup {[op |-> "DeletePolicies", args |-> a] :
          a \in {<<>>, <<DNSPolicyArn, ClusterAutoscalingPolicyArn>>}}
  \cup {[op |-> "DeleteCluster", args |-> a] : a \in {<<Empty>>, <<ClusterName>>}}
  \cup {[op |-> "DeleteNodeGroups", args |-> a] :
          a \in {<<>>, <<PrivateNodeGroupName>>}}
  \cup {[op |-> "DeleteOIDCProvider", args |-> a] : a \in {<<Empty>>, <<OIDCProviderArn>>}}

\* The role inventory entries CreateRoles records for the two EKS roles.
RoleEntry(name) ==
  IF name = ClusterRoleName THEN RoleInventory(name, <<ClusterPolicyARN>>)
  ELSE IF name = WorkerRoleName THEN RoleInventory(name, getWorkerPolicyARNs)
  ELSE EmptyRole

AllAttachments ==
  {<<ClusterRoleName, ClusterPolicyARN>>}
  \cup {<<WorkerRoleName, getWorkerPolicyARNs[k]>> : k \in 1..Len(getWorkerPolicyARNs)}

InitAdapters ==
  /\ cmd = "library"
  /\ cfg \in LibraryConfigs
  /\ awsRegion = "us-east-2"
  /\ azs = <<>>
  /\ pc = "adapter"
  /\ inventory = EmptyInventory
  /\ locals = NoLocals
  /\ file = NoFile
  /\ \E a \in AdapterInputs :
       /\ ret = [NoRet EXCEPT !.op = a.op, !.args = a.args]
       /\ cloud \in SUBSET ((Range(a.args) \ {Empty})
                            \cup (IF a.op = "DeleteNATGateways" /\ a.args # <<Empty>>
                                  THEN {NatGatewayId(1), NatGatewayId(2)} ELSE {}))
       /\ attached \in IF a.op = "DeleteRoles" THEN SUBSET AllAttachments ELSE {{}}
  /\ deleting = {}
  /\ calls = <<>>
  /\ chans = [msg |-> "nil", inv |-> "nil"]
  /\ deleteRuns = 0
  /\ goroutine = "main"
  /\ parked = NoGoroutine
  /\ poll = NoWait

\* The record of one adapter invocation: its error, the provider's last
\* answer and what the provider removed or started to remove.
AdapterCall(op, d) ==
  [t |-> "call", op |-> op, err |-> d.err, last |-> d.last,
   deleted |-> d.deleted \cup d.initiated]

\* One invocation of the adapter named in ret.op with result d.
Invoke(op, d) ==
  /\ pc = "adapter"
  /\ ret.op = op
  /\ Len(calls) < MaxAdapterCalls
  /\ calls' = Append(calls, AdapterCall(op, d))
  /\ ret' = DeleteRet(op, ret.args, d)
  /\ cloud' = cloud \ d.deleted
  /\ attached' = attached \ d.detached
  /\ deleting' = (deleting \cup d.initiated) \ d.deleted
  /\ UNCHANGED <<cfg, awsRegion, azs, pc, inventory, locals, file, chans, deleteRuns, cmd,
                 goroutine, parked, poll>>

Adapter_DeleteVPC ==
  \E failAt \in FailAt(1) :
    Invoke("DeleteVPC", DeleteVPC(ret.args[1], cloud, failAt))

Adapter_DeleteInternetGateway ==
  \E failAt \in FailAt(2) :
    Invoke("DeleteInternetGateway", DeleteInternetGateway(ret.args[1], VpcId, cloud, failAt))

Adapter_DeleteSubnets ==
  \E failAt \in FailAt(Len(ret.args)) :
    Invoke("DeleteSubnets", DeleteSubnets(ret.args, cloud, failAt))

Adapter_DeleteElasticIPs ==
  \E failAt \in FailAt(Len(ret.args)) :
    Invoke("DeleteElasticIPs", DeleteElasticIPs(ret.args, cloud, failAt))

Adapter_DeleteRouteTables ==
  \E failAt \in FailAt(Len(ret.args)) :
    Invoke("DeleteRouteTables",
           DeleteRouteTables(SubSeq(ret.args, 1, Len(ret.args) - 1),
                             ret.args[Len(ret.args)], cloud, failAt))

Adapter_DeleteNATGateways ==
  \E failAt \in FailAt(1 + Len(ListNATGateways(cloud))) :
    Invoke("DeleteNATGateways", DeleteNATGateways(ret.args[1], cloud, failAt))

Adapter_DeleteRoles ==
  LET roles == [i \in 1..Len(ret.args) |-> RoleEntry(ret.args[i])]
  IN \E failAt \in FailAt(Len(RoleCalls(roles, 1))) :
       Invoke("DeleteRoles", DeleteRoles(roles, cloud, attached, failAt))

Adapter_DeletePolicies ==
  \E failAt \in FailAt(Len(ret.args)) :
    Invoke("DeletePolicies", DeletePolicies(ret.args, cloud, failAt))

Adapter_DeleteCluster ==
  \E failAt \in FailAt(1) :
    Invoke("DeleteCluster", DeleteCluster(ret.args[1], cloud, failAt))

Adapter_DeleteNodeGroups ==
  \E failAt \in FailAt(Len(ret.args)) :
    Invoke("DeleteNodeGroups", DeleteNodeGroups(ClusterName, ret.args, cloud, failAt))

Adapter_DeleteOIDCProvider ==
  \E failAt \in FailAt(1) :
    Invoke("DeleteOIDCProvider", DeleteOIDCProvider(ret.args[1], cloud, failAt))

NextAdapters ==
  \/ Adapter_DeleteVPC
  \/ Adapter_DeleteInternetGateway
  \/ Adapter_DeleteSubnets
  \/ Adapter_DeleteElasticIPs
  \/ Adapter_DeleteRouteTables
  \/ Adapter_DeleteNATGateways
  \/ Adapter_DeleteRoles
  \/ Adapter_DeletePolicies
  \/ Adapter_DeleteCluster
  \/ Adapter_DeleteNodeGroups
  \/ Adapter_DeleteOIDCProvider

SpecAdapters == InitAdapters /\ [][NextAdapters]_vars

\* C4: a Delete* adapter returns no error when every identifier it is given
\* is empty (and then calls the provider not at all), when the provider
\* answered NotFound, and when it is called again after a call that returned
\* no error; the only error it returns is a provider error other than NotFound.
DeleteAdaptersIdempotent ==
  (pc = "adapter" /\ calls # <<>>) =>
    /\ (\A i \in 1..Len(ret.args) : ret.args[i] = Empty) => (~ret.err /\ ret.n = 0)
    /\ ret.last = "NotFound" => ~ret.err
    /\ ret.err => ret.last = "APIError"
    /\ (Len(calls) >= 2 /\ ~calls[Len(calls) - 1].err /\ ret.last # "APIError")
         => ~ret.err

\* C4 witness: DeleteVPC called a second time with the identifier of the VPC
\* its first call deleted; the provider answers NotFound and no error returns.
DeleteAgainAfterSuccess ==
  /\ pc = "adapter"
  /\ ret.op = "DeleteVPC" /\ ret.args = <<VpcId>>
  /\ Len(calls) = 2 /\ ~calls[1].err /\ calls[1].deleted = {VpcId}
  /\ ret.last = "NotFound" /\ ~ret.err


\* The create adapters that have a delete adapter of their own.
Counterpart ==
  [CreateVPC |-> "DeleteVPC",
   CreateInternetGateway |-> "DeleteInternetGateway",
   CreateSubnets |-> "DeleteSubnets",
   CreateElasticIPs |-> "DeleteElasticIPs",
   CreateNATGateways |-> "DeleteNATGateways",
   CreateRouteTables |-> "DeleteRouteTables",
   CreateRoles |-> "DeleteRoles",
   CreateCluster |-> "DeleteCluster",
   CreateNodeGroups |-> "DeleteNodeGroups",
   CreateOIDCProvider |-> "DeleteOIDCProvider"]

\* An inventory with every field populated.
FullyPopulated(inv) ==
  /\ inv.VPCID # Empty /\ inv.InternetGatewayID # Empty
  /\ inv.SubnetIDs # <<>> /\ inv.ElasticIPIDs # <<>>
  /\ inv.PrivateRouteTableIDs # <<>> /\ inv.PublicRouteTableID # Empty
  /\ inv.ClusterRole # EmptyRole /\ inv.WorkerRole # EmptyRole
  /\ inv.DNSManagementRole # EmptyRole /\ inv.ClusterAutoscalingRole # EmptyRole
  /\ inv.StorageManagementRole # EmptyRole /\ Len(inv.PolicyARNs) = 2
  /\ inv.Cluster.ClusterName # Empty /\ inv.Cluster.OIDCProviderURL # Empty
  /\ inv.NodeGroupNames # <<>> /\ inv.OIDCProviderARN # Empty

\* The latest DeleteResourceStack run was given a fully populated inventory.
DeletesFullInventory == LastRunMark > 0 /\ FullyPopulated(calls[LastRunMark].inv)

DeleteOps == OpsOf(CallsOf(DeleteRunEvents))
CreateOps == OpsOf(CallsOf(CreateRunEvents))

ExpectedDeleteOrder ==
  <<"DeleteOIDCProvider", "DeleteNodeGroups", "WaitForNodeGroups:Deleted",
    "DeleteCluster", "WaitForCluster:Deleted", "DeleteRoles", "DeletePolicies",
    "DeleteNATGateways", "WaitForNATGateways:Deleted", "DeleteInternetGateway",
    "DeleteElasticIPs", "DeleteSubnets", "DeleteRouteTables", "DeleteVPC">>

DeleteWaitsBeforeDependents ==
  LET run == CallsOf(DeleteRunEvents)
      After(i, wait) == \E j \in 1..(i - 1) : run[j].op = wait /\ ~run[j].err
  IN \A i \in 1..Len(run) :
       /\ run[i].op = "DeleteCluster" => After(i, "WaitForNodeGroups:Deleted")
       /\ run[i].op = "DeleteRoles" => After(i, "WaitForCluster:Deleted")
       /\ run[i].op \in {"DeleteInternetGateway", "DeleteVPC"}
            => After(i, "WaitForNATGateways:Deleted")

\* C6 witness: a delete run that had node groups, a cluster and NAT gateways
\* to wait for has reached DeleteVPC.
DeleteReachedVPCAfterWaits ==
  /\ DeletesFullInventory
  /\ ret.op = "DeleteVPC" /\ ~ret.err
  /\ \E i \in 1..Len(DeleteRunEvents) :
       DeleteRunEvents[i].op = "WaitForNATGateways:Deleted"

ExpectedCreateOrder ==
  <<"CreateVPC", "CreateInternetGateway", "CreateSubnets", "CreateElasticIPs",
    "CreateNATGateways", "WaitForNATGateways:Created", "CreateRouteTables",
    "CreateDNSManagementPolicy", "CreateClusterAutoscalingPolicy", "CreateRoles",
    "CreateCluster", "WaitForCluster:Created", "CreateNodeGroups",
    "WaitForNodeGroups:Created", "CreateOIDCProvider", "CreateDNSManagementRole",
    "CreateClusterAutoscalingRole", "CreateStorageManagementRole",
    "CreateEBSStorageAddon">>

\* The create order for the configuration: the optional steps are left out
\* when their toggle is off.
WantedCreateOrder ==
  SelectSeq(ExpectedCreateOrder,
    LAMBDA s : /\ s \in {"CreateDNSManagementPolicy", "CreateDNSManagementRole"}
                    => cfg.DNSManagement
               /\ s \in {"CreateClusterAutoscalingPolicy", "CreateClusterAutoscalingRole"}
                    => cfg.ClusterAutoscaling)

CreateSucceeded ==
  /\ CreateOps # <<>>
  /\ CallsOf(CreateRunEvents)[Len(CreateOps)].op = "CreateEBSStorageAddon"
  /\ ~CallsOf(CreateRunEvents)[Len(CreateOps)].err

\* C7: the create run invokes the adapters in the documented order, each
\* only after the previous one returned success; a successful run has
\* invoked all of them, the optional ones when their toggle is on.
CreateOrderOnSuccess ==
  LET run == CallsOf(CreateRunEvents)
  IN /\ \A i \in 1..(Len(run) - 1) : ~run[i].err
     /\ Len(run) <= Len(WantedCreateOrder)
     /\ CreateOps = SubSeq(WantedCreateOrder, 1, Len(run))
     /\ (pc = "created" \/ CreateSucceeded) => CreateOps = WantedCreateOrder

\* C7 witness: a create run with both optional features has succeeded.
CreatedWithAllFeatures ==
  pc = "created" /\ cfg.DNSManagement /\ cfg.ClusterAutoscaling /\ Len(azs) = MaxZones

\* C8: once an adapter or wait of the create run has returned an error, the
\* run invokes no further adapter (no create adapter, not the failed one
\* again, no delete adapter) and returns the error to its caller.  Stated for
\* clients whose channels are consumed, so that no send can hold the run.
CreateStopsAtFirstError ==
  LET run == CallsOf(CreateRunEvents)
  IN (chans = CreateResourceClient /\ \E i \in 1..Len(run) : run[i].err) =>
       /\ \A i \in 1..Len(run) : run[i].err => i = Len(run)
       /\ \A i \in 1..Len(run) : run[i].op \in Range(ExpectedCreateOrder)
       /\ pc # "panic"

WaitSteps ==
  {"WaitForNATGateways:Created", "WaitForCluster:Created", "WaitForNodeGroups:Created",
   "WaitForNodeGroups:Deleted", "WaitForCluster:Deleted", "WaitForNATGateways:Deleted"}

SendsNeverBlock ==
  /\ pc # "blocked"
  /\ chans.inv = "nil" => \A i \in 1..Len(calls) : calls[i].t # "inv"
  /\ chans.msg = "nil" => \A i \in 1..Len(calls) : calls[i].t # "msg"

\* ------------------------------------------------- createCmd, interrupted
\* createCmd starts a goroutine that blocks on <-sigs and, on SIGINT or
\* SIGTERM, reads the inventory file and calls DeleteResourceStack while the
\* main goroutine goes on with CreateResourceStack: the handler does not stop
\* the create run and does not exit the process.  The two goroutines are
\* interleaved at the steps of the orchestrator: pc, inventory, locals and
\* ret belong to the goroutine being stepped, parked holds the other one's.
InitInterrupt ==
  /\ cmd = "createCmd"
  /\ cfg \in LibraryConfigs
  /\ awsRegion \in Regions
  /\ azs = <<>>
  /\ pc = "start"
  /\ inventory = EmptyInventory
  /\ locals = NoLocals
  /\ file = NoFile
  /\ cloud = {}
  /\ attached = {}
  /\ deleting = {}
  /\ calls = <<>>
  /\ ret = NoRet
  /\ chans = CreateResourceClient
  /\ deleteRuns = 0
  /\ goroutine = "main"
  /\ parked = [NoGoroutine EXCEPT !.pc = "<-sigs"]
  /\ poll = NoWait

InCreateResourceStack(p) == p \in {"start"} \cup Range(CreateSequence)

\* RunE has returned or the process has crashed.
ProcessOver == {"created", "rolledBack", "exit", "deleteFailed", "panic"}
\* DeleteResourceStack has returned to the signal handler.
HandlerOver == {"deleteReturned", "deleteFailed"}

MainPc == IF goroutine = "main" THEN pc ELSE parked.pc
HandlerPc == IF goroutine = "handler" THEN pc ELSE parked.pc

\* The provider's dependency rules between the resources of one stack: a
\* resource cannot be created without, and cannot outlive, what it is
\* attached to.
Dependencies ==
  /\ IgwId \in cloud => VpcId \in cloud
  /\ \A i \in 1..MaxZones :
       /\ PrivateSubnetId(i) \in cloud => VpcId \in cloud
       /\ PublicSubnetId(i) \in cloud => VpcId \in cloud
       /\ PrivateRouteTableId(i) \in cloud => VpcId \in cloud
       /\ NatGatewayId(i) \in cloud
            => PublicSubnetId(i) \in cloud /\ ElasticIPId(i) \in cloud
  /\ PublicRouteTableId \in cloud => VpcId \in cloud /\ IgwId \in cloud
  /\ ClusterName \in cloud => PrivateSubnetId(1) \in cloud /\ ClusterRoleName \in cloud
  /\ PrivateNodeGroupName \in cloud => ClusterName \in cloud /\ WorkerRoleName \in cloud
  /\ EBSStorageAddonName \in cloud => ClusterName \in cloud
  /\ DNSManagementRoleName \in cloud => DNSPolicyArn \in cloud
  /\ ClusterAutoscalingRoleName \in cloud => ClusterAutoscalingPolicyArn \in cloud

\* A step of either goroutine under the provider's dependency rules.
Provider(step) == step /\ Dependencies'

\* The signal arrives and the handler goroutine runs: ReadInventory, then
\* DeleteResourceStack on the inventory read.  When the file does not exist
\* yet ReadInventory returns nil and DeleteResourceStack dereferences it.
createCmd_Signal ==
  /\ cmd = "createCmd"
  /\ goroutine = "main"
  /\ parked.pc = "<-sigs"
  /\ pc \notin ProcessOver
  /\ IF file = NoFile
     THEN /\ pc' = "panic"
          /\ UNCHANGED <<inventory, awsRegion, calls, locals, ret, goroutine, parked>>
     ELSE /\ StartDelete(ReadInventory(file))
          /\ goroutine' = "handler"
          /\ parked' = [pc |-> pc, inventory |-> inventory, locals |-> locals,
                        ret |-> ret, yields |-> 0]
          /\ locals' = NoLocals
          /\ ret' = NoRet
  /\ UNCHANGED <<cfg, azs, file, cloud, attached, deleting, chans, deleteRuns, cmd, poll>>

\* The scheduler moves from one goroutine to the other while both are
\* inside their run.
Yield ==
  /\ parked.pc \notin {"none", "<-sigs"} \cup HandlerOver
  /\ pc \notin ProcessOver \cup (IF goroutine = "handler" THEN HandlerOver ELSE {})
  /\ parked.yields < MaxYields
  /\ goroutine' = IF goroutine = "main" THEN "handler" ELSE "main"
  /\ pc' = parked.pc
  /\ inventory' = parked.inventory
  /\ locals' = parked.locals
  /\ ret' = parked.ret
  /\ parked' = [pc |-> pc, inventory |-> inventory, locals |-> locals, ret |-> ret,
                yields |-> parked.yields + 1]
  /\ UNCHANGED <<cfg, awsRegion, azs, file, cloud, attached, deleting, calls, chans,
                 deleteRuns, cmd, poll>>

\* DeleteResourceStack returns to the handler, which prints the error if
\* any and ends; the main goroutine goes on.
Handler_Return ==
  /\ goroutine = "handler"
  /\ pc \in HandlerOver
  /\ goroutine' = "main"
  /\ pc' = parked.pc
  /\ inventory' = parked.inventory
  /\ locals' = parked.locals
  /\ ret' = parked.ret
  /\ parked' = [pc |-> pc, inventory |-> inventory, locals |-> locals, ret |-> ret,
                yields |-> parked.yields]
  /\ UNCHANGED <<cfg, awsRegion, azs, file, cloud, attached, deleting, calls, chans,
                 deleteRuns, cmd, poll>>

NextInterrupt ==
  \/ Provider(CreateResourceStack_Start)
  \/ Provider(CreateResourceStack_VPC)
  \/ Provider(CreateResourceStack_InternetGateway)
  \/ Provider(CreateResourceStack_Subnets)
  \/ Provider(CreateResourceStack_ElasticIPs)
  \/ Provider(CreateResourceStack_NATGateways)
  \/ Provider(CreateResourceStack_WaitForNATGateways)
  \/ Provider(CreateResourceStack_RouteTables)
  \/ Provider(CreateResourceStack_DNSManagementPolicy)
  \/ Provider(CreateResourceStack_ClusterAutoscalingPolicy)
  \/ Provider(CreateResourceStack_Roles)
  \/ Provider(CreateResourceStack_Cluster)
  \/ Provider(CreateResourceStack_WaitForCluster)
  \/ Provider(CreateResourceStack_NodeGroups)
  \/ Provider(CreateResourceStack_WaitForNodeGroups)
  \/ Provider(CreateResourceStack_OIDCProvider)
  \/ Provider(CreateResourceStack_DNSManagementRole)
  \/ Provider(CreateResourceStack_ClusterAutoscalingRole)
  \/ Provider(CreateResourceStack_StorageManagementRole)
  \/ Provider(CreateResourceStack_EBSStorageAddon)
  \/ createCmd_Signal
  \/ Yield
  \/ Handler_Return
  \/ createCmd_Rollback
  \/ RemoveInventoryFile
  \/ Provider(DeleteResourceStack_OIDCProvider)
  \/ Provider(DeleteResourceStack_NodeGroups)
  \/ Provider(DeleteResourceStack_WaitForNodeGroups)
  \/ Provider(DeleteResourceStack_Cluster)
  \/ Provider(DeleteResourceStack_WaitForCluster)
  \/ Provider(DeleteResourceStack_Roles)
  \/ Provider(DeleteResourceStack_Policies)
  \/ Provider(DeleteResourceStack_NATGateways)
  \/ Provider(DeleteResourceStack_WaitForNATGateways)
  \/ Provider(DeleteResourceStack_InternetGateway)
  \/ Provider(DeleteResourceStack_ElasticIPs)
  \/ Provider(DeleteResourceStack_Subnets)
  \/ Provider(DeleteResourceStack_RouteTables)
  \/ Provider(DeleteResourceStack_VPC)

SpecInterrupt == InitInterrupt /\ [][NextInterrupt]_vars

\* C11: the create run and a delete run never overlap: while a
\* DeleteResourceStack run is under way, CreateResourceStack invokes no
\* adapter.
OneRunAtATime ==
  HandlerPc \in Range(DeleteSequence) =>
    \A i \in 1..Len(calls) : \A j \in (i + 1)..Len(calls) :
      calls[i].t = "run" =>
        ~(calls[j].t = "call" /\ calls[j].op \in Range(CreateSequence))

\* C12: once the DeleteResourceStack call of the signal handler has returned
\* without error, no resource created by the interrupted run exists.
InterruptRemovesEverything ==
  HandlerPc = "deleteReturned" => cloud = {}

\* ------------------------------------------------- polling loops (WaitFor*)
\* The loops of WaitForCluster, WaitForNodeGroups and WaitForNATGateways taken
\* on their own.  poll holds the call: op and condition are its arguments,
\* members the number of names it is given (0: the empty cluster name or the
\* empty node group list), count the loop counter of the code, fetches the
\* rounds in which the status was fetched, sleeps the time.Sleep calls made,
\* round the answers fetched in the last round in order, answers the status
\* the provider had for each member in that round, result "none" while
\* the loop runs and then what the call returned, pending whether every round
\* so far was answered with the pending state only.
ClusterCheckInterval == 15
ClusterCheckMaxCount == 60
NodeGroupCheckInterval == 15
NodeGroupCheckMaxCount == 240
NATGatewayCheckInterval == 15
NATGatewayCheckMaxCount == 20

Conditions == {"Created", "Deleted"}

\* What getClusterStatus returns: a cluster status, ErrResourceNotFound or
\* another error.
ClusterAnswers == {"ACTIVE", "CREATING", "DELETING", "FAILED", "NotFound", "Error"}

\* What getNodeGroup returns: a node group with its status,
\* ErrResourceNotFound or another error.
NodeGroupAnswers ==
  {"ACTIVE", "CREATING", "CREATE_FAILED", "DELETING", "NotFound", "Error"}

\* The states DescribeNatGateways lists for the gateways of a VPC.
NatGatewayStates == {"pending", "available", "deleting", "deleted"}

\* Sequences over S of length 0..n.
SeqUpTo(S, n) == UNION {[1..k -> S] : k \in 0..n}

\* What getNATGatewayStatuses returns: an error or the list of states.
NATGatewayAnswers ==
  {[err |-> TRUE, states |-> <<>>]}
    \cup {[err |-> FALSE, states |-> s] : s \in SeqUpTo(NatGatewayStates, MaxZones)}

\* The attempt ceiling and the sleep of each loop.
CheckMaxCount(op) ==
  CASE op = "WaitForCluster" -> ClusterCheckMaxCount
    [] op = "WaitForNodeGroups" -> NodeGroupCheckMaxCount
    [] op = "WaitForNATGateways" -> NATGatewayCheckMaxCount

CheckInterval(op) ==
  CASE op = "WaitForCluster" -> ClusterCheckInterval
    [] op = "WaitForNodeGroups" -> NodeGroupCheckInterval
    [] op = "WaitForNATGateways" -> NATGatewayCheckInterval

\* A ceiling test that gives up one round early.
CeilingReached(count, max) == count >= max
\* if checkCount > CheckMaxCount { return timed out }
CeilingExceeded(count, max) == count > max

\* A NotFound answer that never meets the condition.
NotFoundNeverMeets(condition) == FALSE
\* errors.Is(err, ErrResourceNotFound) && condition == ...ConditionDeleted
NotFoundMeets(condition) == condition = "Deleted"

\* The body of the loop of WaitForCluster after the ceiling test: "nil"
\* (break, return nil), "error" (return the error) or "sleep".
ClusterCheck(status, condition) ==
  IF status \in {"NotFound", "Error"}
  THEN IF status = "NotFound" /\ NotFoundMeets(condition) THEN "nil" ELSE "error"
  ELSE IF status = "ACTIVE" /\ condition = "Created" THEN "nil"
  ELSE "sleep"

\* nodeGroup.Status == types.NodegroupStatusCreateFailed
CreateFailed(status) == status = "CREATE_FAILED"

\* An inner loop that goes on to the next name after any failed fetch.
RECURSIVE NodeGroupsCheckSwallowing(_, _, _)
NodeGroupsCheckSwallowing(answers, condition, i) ==
  IF i > Len(answers) THEN [fetched |-> <<>>, outcome |-> "nil"]
  ELSE LET a == answers[i]
           rest == NodeGroupsCheckSwallowing(answers, condition, i + 1)
           continue == [fetched |-> <<a>> \o rest.fetched, outcome |-> rest.outcome]
       IN IF a \in {"NotFound", "Error"} THEN continue
          ELSE IF a = "ACTIVE" /\ condition = "Created" THEN continue
          ELSE IF CreateFailed(a) THEN [fetched |-> <<a>>, outcome |-> "createFailed"]
          ELSE [fetched |-> <<a>>, outcome |-> "sleep"]

\* The inner loop of WaitForNodeGroups over the names from position i on:
\* the answers fetched, in order, and how the round ends ("createFailed" is
\* the error return for a create-failed node group).  A node group that does
\* not meet the condition ends the round: the names after it are not fetched.
RECURSIVE NodeGroupsCheck(_, _, _)
NodeGroupsCheck(answers, condition, i) ==
  IF i > Len(answers) THEN [fetched |-> <<>>, outcome |-> "nil"]
  ELSE LET a == answers[i]
           rest == NodeGroupsCheck(answers, condition, i + 1)
           continue == [fetched |-> <<a>> \o rest.fetched, outcome |-> rest.outcome]
       IN IF a \in {"NotFound", "Error"}
          THEN IF a = "NotFound" /\ NotFoundMeets(condition) THEN continue
               ELSE [fetched |-> <<a>>, outcome |-> "error"]
          ELSE IF a = "ACTIVE" /\ condition = "Created" THEN continue
          ELSE IF CreateFailed(a) THEN [fetched |-> <<a>>, outcome |-> "createFailed"]
          ELSE [fetched |-> <<a>>, outcome |-> "sleep"]

\* A test of the listed states that is content with one member.
SomeNATGatewayMeets(states, condition) ==
  \E i \in 1..Len(states) :
    /\ ~(states[i] # "available" /\ condition = "Created")
    /\ ~(states[i] # "deleted" /\ condition = "Deleted")
\* allConditionsMet of WaitForNATGateways after its loop over the states.
AllNATGatewaysMeet(states, condition) ==
  \A i \in 1..Len(states) :
    /\ ~(states[i] # "available" /\ condition = "Created")
    /\ ~(states[i] # "deleted" /\ condition = "Deleted")

\* The body of the loop of WaitForNATGateways after the ceiling test.
NATGatewaysCheck(answer, condition) ==
  IF answer.err THEN "error"
  ELSE IF Len(answer.states) = 0 /\ condition = "Deleted" THEN "nil"
  ELSE IF AllNATGatewaysMeet(answer.states, condition) THEN "nil"
  ELSE "sleep"

\* poll after a round that fetched the answers in fetched and ended in outcome.
Polled(outcome, fetched, answers, pendingRound) ==
  [poll EXCEPT !.count = @ + 1, !.fetches = @ + 1, !.round = fetched,
               !.answers = answers,
               !.sleeps = IF outcome = "sleep" THEN @ + 1 ELSE @,
               !.result = IF outcome = "sleep" THEN "none" ELSE outcome,
               !.pending = @ /\ pendingRound]

\* poll after the round in which the ceiling test fails.
TimedOut == [poll EXCEPT !.count = @ + 1, !.result = "timeout"]

\* The seconds slept by the call.
Slept == poll.sleeps * CheckInterval(poll.op)

InitWaits ==
  /\ cmd = "library"
  /\ cfg \in LibraryConfigs
  /\ awsRegion = "us-east-2"
  /\ azs = <<>>
  /\ pc = "wait"
  /\ inventory = EmptyInventory
  /\ locals = NoLocals
  /\ file = NoFile
  /\ cloud = {}
  /\ attached = {}
  /\ deleting = {}
  /\ calls = <<>>
  /\ ret = NoRet
  /\ chans = [msg |-> "nil", inv |-> "nil"]
  /\ deleteRuns = 0
  /\ goroutine = "main"
  /\ parked = NoGoroutine
  /\ \E op \in {"WaitForCluster", "WaitForNodeGroups", "WaitForNATGateways"} :
     \E condition \in Conditions :
     \E n \in 0..MaxNodeGroups :
       /\ op = "WaitForCluster" => n \in {0, 1}
       /\ op = "WaitForNATGateways" => n = 0
       /\ poll = [NoWait EXCEPT !.op = op, !.condition = condition, !.members = n]

WaitUnchanged ==
  UNCHANGED <<cfg, awsRegion, azs, pc, inventory, locals, file, cloud, attached,
              deleting, calls, ret, chans, deleteRuns, cmd, goroutine, parked>>

\* WaitForCluster: the early return for the empty name, or one turn of the
\* loop.
WaitForCluster_Check ==
  /\ pc = "wait" /\ poll.op = "WaitForCluster" /\ poll.result = "none"
  /\ IF poll.members = 0 THEN poll' = [poll EXCEPT !.result = "nil"]
     ELSE IF CeilingExceeded(poll.count + 1, ClusterCheckMaxCount) THEN poll' = TimedOut
     ELSE \E status \in ClusterAnswers :
            poll' = Polled(ClusterCheck(status, poll.condition), <<status>>,
                           <<status>>, status = "CREATING")
  /\ WaitUnchanged

\* WaitForNodeGroups: the early return for the empty list, or one turn of the
\* outer loop; answers is what the provider would answer for each name.
WaitForNodeGroups_Check ==
  /\ pc = "wait" /\ poll.op = "WaitForNodeGroups" /\ poll.result = "none"
  /\ IF poll.members = 0 THEN poll' = [poll EXCEPT !.result = "nil"]
     ELSE IF CeilingExceeded(poll.count + 1, NodeGroupCheckMaxCount) THEN poll' = TimedOut
     ELSE \E answers \in [1..poll.members -> NodeGroupAnswers] :
            LET r == NodeGroupsCheck(answers, poll.condition, 1)
            IN poll' = Polled(r.outcome, r.fetched, answers,
                              \A i \in 1..poll.members : answers[i] = "CREATING")
  /\ WaitUnchanged

\* WaitForNATGateways: one turn of the loop.
WaitForNATGateways_Check ==
  /\ pc = "wait" /\ poll.op = "WaitForNATGateways" /\ poll.result = "none"
  /\ IF CeilingExceeded(poll.count + 1, NATGatewayCheckMaxCount) THEN poll' = TimedOut
     ELSE \E answer \in NATGatewayAnswers :
            poll' = Polled(NATGatewaysCheck(answer, poll.condition), answer.states,
                           answer.states,
                           /\ ~answer.err
                           /\ Len(answer.states) > 0
                           /\ \A i \in 1..Len(answer.states) : answer.states[i] = "pending")
  /\ WaitUnchanged

NextWaits ==
  \/ WaitForCluster_Check
  \/ WaitForNodeGroups_Check
  \/ WaitForNATGateways_Check

SpecWaits == InitWaits /\ [][NextWaits]_vars

\* C13: WaitForCluster and WaitForNodeGroups with the Deleted condition return
\* nil in the first round in which the status check answers NotFound (for node
\* groups: for every name of the list), without sleeping in that round and
\* without having reached the attempt ceiling.
DeletedWaitEndsOnNotFound ==
  ( /\ poll.op \in {"WaitForCluster", "WaitForNodeGroups"}
    /\ poll.condition = "Deleted"
    /\ poll.fetches > 0
    /\ Len(poll.round) = poll.members
    /\ \A i \in 1..Len(poll.round) : poll.round[i] = "NotFound" )
  => /\ poll.result = "nil"
     /\ poll.sleeps = poll.fetches - 1
     /\ poll.count <= CheckMaxCount(poll.op)

\* A Deleted wait over two node groups that ended on NotFound for both after
\* an earlier round in which one of them still existed.
DeletedWaitEndedOnNotFound ==
  /\ poll.op = "WaitForNodeGroups" /\ poll.condition = "Deleted"
  /\ poll.members = 2 /\ poll.round = <<"NotFound", "NotFound">>
  /\ poll.fetches = 2 /\ poll.result = "nil"

CreateFailedEndsWait ==
  ( /\ poll.op = "WaitForNodeGroups" /\ poll.condition = "Created"
    /\ \E i \in 1..Len(poll.answers) : poll.answers[i] = "CREATE_FAILED" )
  => poll.result \in {"createFailed", "error"}

\* C16: a wait on a collection returns nil only after a round in which every
\* member met the condition: every listed node group was fetched and was
\* Active (Created) or not found (Deleted); every NAT gateway of the VPC was
\* available (Created) or deleted (Deleted).
CollectionWaitNeedsAllMembers ==
  (poll.result = "nil" /\ poll.fetches > 0) =>
    /\ poll.op = "WaitForNodeGroups" =>
         /\ Len(poll.round) = poll.members
         /\ poll.answers = poll.round
         /\ \A i \in 1..poll.members :
              poll.round[i] = (IF poll.condition = "Created" THEN "ACTIVE" ELSE "NotFound")
    /\ poll.op = "WaitForNATGateways" =>
         \A i \in 1..Len(poll.round) :
           poll.round[i] = (IF poll.condition = "Created" THEN "available" ELSE "deleted")

\* A wait for the creation of two NAT gateways returned nil in its second
\* round, after a round in which not both were available.
NATGatewaysAvailableAfterPending ==
  /\ poll.op = "WaitForNATGateways" /\ poll.condition = "Created"
  /\ poll.round = <<"available", "available">>
  /\ poll.sleeps = 1 /\ poll.result = "nil"

\* The resources of one kind that exist in the account.
Existing(kind) == {id \in cloud : id[1] = kind}

\* C17: a successful create run with 2 availability zones and no optional
\* feature has created exactly 1 VPC, 1 internet gateway, 4 subnets, 2
\* elastic IPs, 2 NAT gateways, 3 route tables (1 public, 2 private), 2 roles
\* (cluster and worker), 1 cluster and 1 node group, and the optional-role
\* fields of the inventory are empty.
MinimalStackIsExact ==
  (pc = "created" /\ Len(azs) = 2 /\ ~cfg.DNSManagement /\ ~cfg.ClusterAutoscaling) =>
    /\ Cardinality(Existing("vpc")) = 1
    /\ Cardinality(Existing("igw")) = 1
    /\ Cardinality(Existing("subnet")) = 4
    /\ Cardinality(Existing("eipalloc")) = 2
    /\ Cardinality(Existing("nat")) = 2
    /\ Cardinality(Existing("rtb")) = 3
    /\ Cardinality({id \in Existing("rtb") : id[2] = "public"}) = 1
    /\ Cardinality({id \in Existing("rtb") : id[2] = "private"}) = 2
    /\ Existing("role") = {ClusterRoleName, WorkerRoleName}
    /\ Cardinality(Existing("cluster")) = 1
    /\ Cardinality(Existing("nodegroup")) = 1
    /\ inventory.DNSManagementRole = EmptyRole
    /\ inventory.ClusterAutoscalingRole = EmptyRole
    /\ inventory.StorageManagementRole = EmptyRole

\* The role fields of an inventory that hold a role.
RolesOf(inv) ==
  {f \in {"ClusterRole", "WorkerRole", "DNSManagementRole", "ClusterAutoscalingRole",
          "StorageManagementRole"} : inv[f] # EmptyRole}

\* The roles and policy ARNs in the inventory of a successful run without DNS
\* management: cluster, worker and storage role, the autoscaling role and
\* policy when that toggle is on.
RolesWithoutDNS ==
  {"ClusterRole", "WorkerRole", "StorageManagementRole"}
    \cup (IF cfg.ClusterAutoscaling THEN {"ClusterAutoscalingRole"} ELSE {})
PolicyARNsWithoutDNS ==
  IF cfg.ClusterAutoscaling THEN <<ClusterAutoscalingPolicyArn>> ELSE <<>>

\* C18: with DNS management enabled a successful create run has in its
\* inventory exactly one policy ARN and exactly one role, the DNS management
\* role, more than the same run without DNS management; and the DNS management
\* role was created with that policy as its permissions boundary, has it
\* attached, and is recorded with it.
DNSManagementAddsPolicyAndRole ==
  /\ pc = "created" =>
       IF cfg.DNSManagement
       THEN /\ RolesOf(inventory) = RolesWithoutDNS \cup {"DNSManagementRole"}
            /\ inventory.PolicyARNs = <<DNSPolicyArn>> \o PolicyARNsWithoutDNS
            /\ inventory.DNSManagementRole =
                 RoleInventory(DNSManagementRoleName, <<DNSPolicyArn>>)
            /\ <<DNSManagementRoleName, DNSPolicyArn>> \in attached
            /\ {DNSManagementRoleName, DNSPolicyArn} \subseteq cloud
       ELSE /\ RolesOf(inventory) = RolesWithoutDNS
            /\ inventory.PolicyARNs = PolicyARNsWithoutDNS
  /\ (ret.op = "CreateDNSManagementRole" /\ ret.created # {}) =>
       /\ ret.boundary = DNSPolicyArn
       /\ ret.boundary \in Range(inventory.PolicyARNs)
       /\ inventory.DNSManagementRole.RolePolicyARNs = <<ret.boundary>>

\* A run with DNS management and without autoscaling has succeeded.
CreatedWithDNSManagementOnly ==
  pc = "created" /\ cfg.DNSManagement /\ ~cfg.ClusterAutoscaling
  /\ inventory.DNSManagementRole.RolePolicyARNs = <<DNSPolicyArn>>

\* ------------------------------------- CreateResourceStack, shared config
\* CreateResourceStack takes the configuration by pointer and reads each
\* feature toggle twice, once in the policy block and once in the role block;
\* the library caller holds the same pointer.  Here the caller writes a toggle
\* while the run is under way, so the two reads of one run can differ.
InitToggles ==
  /\ cmd = "library"
  /\ cfg \in {c \in Configs : c.Region # "" /\ c.Tags = "map" /\ c.AvailabilityZones = 1}
  /\ awsRegion = "us-east-2"
  /\ azs = <<>>
  /\ pc = "start"
  /\ inventory = EmptyInventory
  /\ locals = NoLocals
  /\ file = NoFile
  /\ cloud = {}
  /\ attached = {}
  /\ deleting = {}
  /\ calls = <<>>
  /\ ret = NoRet
  /\ chans = [msg |-> "nil", inv |-> "nil"]
  /\ deleteRuns = 0
  /\ goroutine = "main"
  /\ parked = NoGoroutine
  /\ poll = NoWait

\* The caller sets or clears a feature toggle of the configuration.
Caller_SetToggle ==
  /\ InCreateResourceStack(pc)
  /\ \E toggle \in {"DNSManagement", "ClusterAutoscaling"} :
       cfg' = [cfg EXCEPT ![toggle] = ~@]
  /\ UNCHANGED <<awsRegion, azs, pc, inventory, locals, file, cloud, attached,
                 deleting, calls, ret, chans, deleteRuns, cmd, goroutine, parked, poll>>

NextToggles ==
  \/ Caller_SetToggle
  \/ CreateResourceStack_Start
  \/ CreateResourceStack_VPC
  \/ CreateResourceStack_InternetGateway
  \/ CreateResourceStack_Subnets
  \/ CreateResourceStack_ElasticIPs
  \/ CreateResourceStack_NATGateways
  \/ CreateResourceStack_WaitForNATGateways
  \/ CreateResourceStack_RouteTables
  \/ CreateResourceStack_DNSManagementPolicy
  \/ CreateResourceStack_ClusterAutoscalingPolicy
  \/ CreateResourceStack_Roles
  \/ CreateResourceStack_Cluster
  \/ CreateResourceStack_WaitForCluster
  \/ CreateResourceStack_NodeGroups
  \/ CreateResourceStack_WaitForNodeGroups
  \/ CreateResourceStack_OIDCProvider
  \/ CreateResourceStack_DNSManagementRole
  \/ CreateResourceStack_ClusterAutoscalingRole
  \/ CreateResourceStack_StorageManagementRole
  \/ CreateResourceStack_EBSStorageAddon

SpecToggles == InitToggles /\ [][NextToggles]_vars

\* The optional features with a dependent role: toggle, policy block, role
\* block, the local that holds the created policy, and the identifiers.
DependentRoles ==
  {[toggle |-> "DNSManagement", policyStep |-> "CreateDNSManagementPolicy",
    roleStep |-> "CreateDNSManagementRole", policyLocal |-> "createdDNSPolicy",
    policy |-> DNSPolicyArn, role |-> DNSManagementRoleName],
   [toggle |-> "ClusterAutoscaling", policyStep |-> "CreateClusterAutoscalingPolicy",
    roleStep |-> "CreateClusterAutoscalingRole",
    policyLocal |-> "createdClusterAutoscalingPolicy",
    policy |-> ClusterAutoscalingPolicyArn, role |-> ClusterAutoscalingRoleName]}

\* The run leaves the block it is in without invoking an adapter and without
\* creating anything.
NothingInvoked ==
  calls' = calls /\ cloud' = cloud /\ attached' = attached /\ inventory' = inventory

\* C19: when the role block of an optional feature is reached with the toggle
\* on and no policy created, CreateResourceStack returns an error and no
\* adapter is invoked; a policy or role block reached with the toggle off
\* invokes no adapter and creates nothing; and at no time does an optional
\* role exist, or has its adapter been invoked, without its policy having been
\* created.
MissingPolicyIsFatal ==
  /\ [](\A f \in DependentRoles :
          /\ f.role \in cloud => f.policy \in cloud
          /\ (\E i \in 1..Len(calls) : calls[i].t = "call" /\ calls[i].op = f.roleStep)
               => locals[f.policyLocal] = f.policy)
  /\ [][\A f \in DependentRoles :
          /\ (pc = f.roleStep /\ pc' # pc /\ cfg[f.toggle] /\ locals[f.policyLocal] = Empty)
               => (pc' = "createFailed" /\ NothingInvoked)
          /\ (pc \in {f.policyStep, f.roleStep} /\ pc' # pc /\ ~cfg[f.toggle])
               => (pc' = AfterCreate(pc) /\ NothingInvoked)]_vars

\* The run has returned the error of the DNS management role block: the
\* toggle is on, no DNS policy was created and the last adapter invoked, the
\* OIDC provider's, had succeeded.
FailedForMissingDNSPolicy ==
  /\ pc = "createFailed" /\ cfg.DNSManagement /\ locals.createdDNSPolicy = Empty
  /\ ret.op = "CreateOIDCProvider" /\ ~ret.err

\* C20: with the region unset in the configuration and in the AWS
\* configuration, CreateResourceStack returns an error; no adapter has been
\* invoked and no resource exists.
RegionUnsetIsAnError ==
  (cfg.Region = "" /\ awsRegion = "" /\ pc # "start") =>
    /\ pc \in {"createFailed", "exit"}
    /\ calls = <<>>
    /\ cloud = {}

\* C21: a create adapter is invoked, and a network resource exists, only when
\* the availability-zone list of the configuration is not empty.
ZonesBeforeNetwork ==
  ( \/ \E i \in 1..Len(calls) :
         calls[i].t = "call" /\ calls[i].op \in Range(CreateSequence)
    \/ \E id \in cloud : id[1] \in {"vpc", "igw", "subnet", "eipalloc", "nat", "rtb"} )
  => Len(azs) > 0

\* ---------------------------------------------------------------- role names
\* The role adapters that CreateResourceStack calls take the cluster name
\* (c.CreateRoles(iamTags, resourceConfig.Name)) and build each role name from
\* the role's constant and that name, as CreateDNSManagementPolicy builds the
\* policy name ("%s-%s").  A name is modelled by its length in characters.
RoleNameMaxLength == 64

\* len() of the role name constants.
RoleNamePrefixLen(role) ==
  CASE role = ClusterRoleName -> 16              \* "eks-cluster-role"
    [] role = WorkerRoleName -> 24               \* "eks-cluster-workler-role"
    [] role = DNSManagementRoleName -> 31        \* "eks-cluster-dns-management-role"
    [] role = ClusterAutoscalingRoleName -> 35   \* "eks-cluster-cluster-autoscaler-role"
    [] role = StorageManagementRoleName -> 27    \* "eks-cluster-csi-driver-role"

\* fmt.Sprintf("%s-%s", <role name constant>, clusterName)
RoleNameLen(role, clusterNameLen) == RoleNamePrefixLen(role) + 1 + clusterNameLen

\* A validation that accepts every name.
checkRoleNameAccepts(nameLen) == FALSE
\* The precondition check: TRUE when the name is rejected.
checkRoleName(nameLen) == nameLen > RoleNameMaxLength

\* The roles each role adapter creates, in order.
RolesCreatedBy(adapter) ==
  CASE adapter = "CreateRoles" -> <<ClusterRoleName, WorkerRoleName>>
    [] adapter = "CreateDNSManagementRole" -> <<DNSManagementRoleName>>
    [] adapter = "CreateClusterAutoscalingRole" -> <<ClusterAutoscalingRoleName>>
    [] adapter = "CreateStorageManagementRole" -> <<StorageManagementRoleName>>

\* cfg with the cluster name, by its length.
WithName(c, nameLen) ==
  [f \in DOMAIN c \cup {"Name"} |-> IF f = "Name" THEN nameLen ELSE c[f]]

InitRoleNames ==
  /\ cmd = "library"
  /\ \E c \in LibraryConfigs : \E nameLen \in 0..MaxNameLen : cfg = WithName(c, nameLen)
  /\ awsRegion = "us-east-2"
  /\ azs = <<>>
  /\ pc = "roleAdapter"
  /\ inventory = EmptyInventory
  /\ locals = NoLocals
  /\ file = NoFile
  /\ cloud = {}
  /\ attached = {}
  /\ deleting = {}
  /\ calls = <<>>
  /\ \E adapter \in {"CreateRoles", "CreateDNSManagementRole",
                     "CreateClusterAutoscalingRole", "CreateStorageManagementRole"} :
       ret = [NoRet EXCEPT !.op = adapter]
  /\ chans = [msg |-> "nil", inv |-> "nil"]
  /\ deleteRuns = 0
  /\ goroutine = "main"
  /\ parked = NoGoroutine
  /\ poll = NoWait

\* The CreateRole calls of a role adapter for the roles from position i on:
\* the calls made and the roles created; failAt is the call that fails.
RECURSIVE CreateRoleCalls(_, _, _)
CreateRoleCalls(roles, i, failAt) ==
  IF i > Len(roles) THEN [hist |-> <<>>, created |-> {}, err |-> FALSE]
  ELSE IF failAt = i
  THEN [hist |-> <<Call("CreateRole", TRUE)>>, created |-> {}, err |-> TRUE]
  ELSE LET rest == CreateRoleCalls(roles, i + 1, failAt)
       IN [hist |-> <<Call("CreateRole", FALSE)>> \o rest.hist,
           created |-> {roles[i]} \cup rest.created, err |-> rest.err]

\* A role adapter: every name is validated, then the roles are created.
RoleAdapter_Create ==
  /\ pc = "roleAdapter"
  /\ LET roles == RolesCreatedBy(ret.op)
     IN IF \E i \in 1..Len(roles) : checkRoleName(RoleNameLen(roles[i], cfg.Name))
        THEN /\ ret' = [ret EXCEPT !.err = TRUE, !.last = "RoleNameTooLong"]
             /\ UNCHANGED <<calls, cloud>>
        ELSE \E failAt \in 0..Len(roles) :
               LET r == CreateRoleCalls(roles, 1, failAt)
               IN /\ ret' = [ret EXCEPT !.err = r.err, !.created = r.created,
                                        !.last = IF r.err THEN "APIError" ELSE "ok"]
                  /\ calls' = calls \o r.hist
                  /\ cloud' = cloud \cup r.created
  /\ pc' = "returned"
  /\ UNCHANGED <<cfg, awsRegion, azs, inventory, locals, file, attached, deleting,
                 chans, deleteRuns, cmd, goroutine, parked, poll>>

NextRoleNames == RoleAdapter_Create

SpecRoleNames == InitRoleNames /\ [][NextRoleNames]_vars

GoStrings == {"", "a"}
GoSlices ==
  {[nil |-> TRUE, elems |-> <<>>]}
    \cup {[nil |-> FALSE, elems |-> s] : s \in SeqUpTo({"a", "b"}, MaxListLen)}

GoInventories ==
  [Region : GoStrings, SubnetIDs : GoSlices, NodeGroupNames : GoSlices,
   ClusterRole : [RoleName : GoStrings, RolePolicyARNs : GoSlices]]

\* encoding/json: a string encodes as a JSON string.
JSONString(s) == [t |-> "string", str |-> s, arr |-> <<>>]
\* encoding/json: a nil slice encodes as null, any other slice as an array.
JSONSlice(s) ==
  IF s.nil THEN [t |-> "null", str |-> "", arr |-> <<>>]
  ELSE [t |-> "array", str |-> "", arr |-> s.elems]

\* json.MarshalIndent(inventory): every field under its json key, none
\* omitted (no omitempty tag).
MarshalInventory(inv) ==
  [region |-> JSONString(inv.Region),
   subnetIDs |-> JSONSlice(inv.SubnetIDs),
   nodeGroupNames |-> JSONSlice(inv.NodeGroupNames),
   clusterRole |-> [roleName |-> JSONString(inv.ClusterRole.RoleName),
                    rolePolicyARNs |-> JSONSlice(inv.ClusterRole.RolePolicyARNs)]]

\* json.Unmarshal into a zero-valued field: null leaves the nil slice, an
\* array gives a slice with its elements.
GoSlice(j) ==
  IF j.t = "null" THEN [nil |-> TRUE, elems |-> <<>>]
  ELSE [nil |-> FALSE, elems |-> j.arr]

UnmarshalInventory(doc) ==
  [Region |-> doc.region.str,
   SubnetIDs |-> GoSlice(doc.subnetIDs),
   NodeGroupNames |-> GoSlice(doc.nodeGroupNames),
   ClusterRole |-> [RoleName |-> doc.clusterRole.roleName.str,
                    RolePolicyARNs |-> GoSlice(doc.clusterRole.rolePolicyARNs)]]

\* inventory is the value given to WriteInventory, file the document written
\* and locals the value ReadInventory returns.
InitInventoryJSON ==
  /\ cmd = "library"
  /\ cfg \in LibraryConfigs
  /\ awsRegion = "us-east-2"
  /\ azs = <<>>
  /\ pc = "WriteInventory"
  /\ inventory \in GoInventories
  /\ locals = NoLocals
  /\ file = NoFile
  /\ cloud = {}
  /\ attached = {}
  /\ deleting = {}
  /\ calls = <<>>
  /\ ret = NoRet
  /\ chans = [msg |-> "nil", inv |-> "nil"]
  /\ deleteRuns = 0
  /\ goroutine = "main"
  /\ parked = NoGoroutine
  /\ poll = NoWait

Inventory_Write ==
  /\ pc = "WriteInventory"
  /\ file' = MarshalInventory(inventory)
  /\ pc' = "ReadInventory"
  /\ UNCHANGED <<cfg, awsRegion, azs, inventory, locals, cloud, attached, deleting,
                 calls, ret, chans, deleteRuns, cmd, goroutine, parked, poll>>

Inventory_Read ==
  /\ pc = "ReadInventory"
  /\ locals' = UnmarshalInventory(file)
  /\ pc' = "read"
  /\ UNCHANGED <<cfg, awsRegion, azs, inventory, file, cloud, attached, deleting,
                 calls, ret, chans, deleteRuns, cmd, goroutine, parked, poll>>

NextInventoryJSON ==
  \/ Inventory_Write
  \/ Inventory_Read

SpecInventoryJSON == InitInventoryJSON /\ [][NextInventoryJSON]_vars

\* C23: an inventory written and read back equals the original in every
\* field, and in the document every list without an element is the empty
\* array and every string field is a string: no field is omitted or null.
InventoryRoundTrips ==
  /\ pc = "read" => locals = inventory
  /\ pc # "WriteInventory" =>
       /\ file.region.t = "string"
       /\ file.clusterRole.roleName.t = "string"
       /\ \A f \in {"SubnetIDs", "NodeGroupNames"} :
            LET j == IF f = "SubnetIDs" THEN file.subnetIDs ELSE file.nodeGroupNames
            IN inventory[f].elems = <<>> => (j.t = "array" /\ j.arr = <<>>)
       /\ inventory.ClusterRole.RolePolicyARNs.elems = <<>> =>
            /\ file.clusterRole.rolePolicyARNs.t = "array"
            /\ file.clusterRole.rolePolicyARNs.arr = <<>>

\* ------------------------------------------- the inventory file and delete

\* C24: the inventory file is removed only after DeleteResourceStack has
\* returned success for the whole delete sequence, and when a delete step has
\* failed, in a delete run or in the rollback of a failed create, the file
\* still exists and lists every resource that has not been deleted.
InventoryFileOutlivesFailedDelete ==
  /\ [][(file # NoFile /\ file' = NoFile) => pc = "deleteReturned"]_vars
  /\ [](pc = "deleteFailed" =>
          /\ file # NoFile
          /\ (cloud \ NotInventoried) \subseteq InventoryIds(ReadInventory(file)))

\* C25: a DeleteResourceStack run that follows a failed run, takes the
\* inventory persisted at the failure and returns no error leaves none of the
\* resources that inventory lists; a run on an inventory that lists no
\* identifier fails at no step.
DeleteRerunIsIdempotent ==
  LET marks == {i \in 1..Len(calls) : IsRunMark(i)}
      given == calls[LastRunMark].inv
  IN /\ (Cardinality(marks) >= 2 /\ pc \in {"deleteReturned", "deleted", "rolledBack"})
          => InventoryIds(given) \cap cloud = {}
     /\ (LastRunMark # 0 /\ InventoryIds(given) = {})
          => \A i \in 1..Len(DeleteRunEvents) : ~DeleteRunEvents[i].err

\* ------------------------------------------- create against an earlier file
\* createCmd run again with the inventory file of an earlier run: the file
\* and the account are as the earlier createCmd left them when its create run
\* failed and its rollback failed too, at DeleteVPC or at
\* DeleteInternetGateway.  The resources of the earlier run have identifiers
\* of their own.
EarlierVpcId == Id("vpc", "earlier", 0)
EarlierIgwId == Id("igw", "earlier", 0)

EarlierRuns ==
  {[cloud |-> {EarlierVpcId},
    inv |-> [EmptyInventory EXCEPT !.Region = "us-east-2", !.VPCID = EarlierVpcId]],
   [cloud |-> {EarlierVpcId, EarlierIgwId},
    inv |-> [EmptyInventory EXCEPT !.Region = "us-east-2", !.VPCID = EarlierVpcId,
                                   !.InternetGatewayID = EarlierIgwId]]}

InitRecreate ==
  /\ cmd = "createCmd"
  /\ cfg \in Configs
  /\ awsRegion \in Regions
  /\ azs = <<>>
  /\ pc = "start"
  /\ inventory = EmptyInventory
  /\ locals = NoLocals
  /\ \E e \in EarlierRuns : cloud = e.cloud /\ file = WriteInventory(e.inv)
  /\ attached = {}
  /\ deleting = {}
  /\ calls = <<>>
  /\ ret = NoRet
  /\ chans = CreateResourceClient
  /\ deleteRuns = 0
  /\ goroutine = "main"
  /\ parked = NoGoroutine
  /\ poll = NoWait

NextRecreate ==
  \/ CreateResourceStack_Start
  \/ CreateResourceStack_VPC
  \/ CreateResourceStack_InternetGateway
  \/ CreateResourceStack_Subnets
  \/ CreateResourceStack_ElasticIPs
  \/ CreateResourceStack_NATGateways
  \/ CreateResourceStack_WaitForNATGateways
  \/ CreateResourceStack_RouteTables
  \/ CreateResourceStack_DNSManagementPolicy
  \/ CreateResourceStack_ClusterAutoscalingPolicy
  \/ CreateResourceStack_Roles
  \/ CreateResourceStack_Cluster
  \/ CreateResourceStack_WaitForCluster
  \/ CreateResourceStack_NodeGroups
  \/ CreateResourceStack_WaitForNodeGroups
  \/ CreateResourceStack_OIDCProvider
  \/ CreateResourceStack_DNSManagementRole
  \/ CreateResourceStack_ClusterAutoscalingRole
  \/ CreateResourceStack_StorageManagementRole
  \/ CreateResourceStack_EBSStorageAddon
  \/ createCmd_Rollback
  \/ deleteCmd
  \/ RemoveInventoryFile
  \/ DeleteResourceStack_OIDCProvider
  \/ DeleteResourceStack_NodeGroups
  \/ DeleteResourceStack_WaitForNodeGroups
  \/ DeleteResourceStack_Cluster
  \/ DeleteResourceStack_WaitForCluster
  \/ DeleteResourceStack_Roles
  \/ DeleteResourceStack_Policies
  \/ DeleteResourceStack_NATGateways
  \/ DeleteResourceStack_WaitForNATGateways
  \/ DeleteResourceStack_InternetGateway
  \/ DeleteResourceStack_ElasticIPs
  \/ DeleteResourceStack_Subnets
  \/ DeleteResourceStack_RouteTables
  \/ DeleteResourceStack_VPC

SpecRecreate == InitRecreate /\ [][NextRecreate]_vars

\* C26: while createCmd runs again on the inventory file of an earlier run,
\* every resource of the earlier run that still exists in the account is
\* listed in the inventory file.
RecreateKeepsEarlierResources ==
  \A id \in cloud \cap {EarlierVpcId, EarlierIgwId} :
    file # NoFile /\ id \in InventoryIds(ReadInventory(file))

\* C27: in a DeleteRoles call, DeleteRole is issued for a role only after
\* DetachRolePolicy was issued for every policy ARN recorded for it, and a
\* call that returns no error has issued the calls of every role of the list
\* that has a name.
DeleteRolesProcessesEveryRole ==
  (pc = "adapter" /\ ret.op = "DeleteRoles" /\ calls # <<>>) =>
    LET roles == [i \in 1..Len(ret.args) |-> RoleEntry(ret.args[i])]
        issued == SubSeq(RoleCalls(roles, 1), 1, ret.n)
    IN /\ \A i \in 1..Len(issued) :
            issued[i].call = "delete" =>
              \A p \in Range(RoleEntry(issued[i].role).RolePolicyARNs) :
                \E k \in 1..(i - 1) :
                  /\ issued[k].call = "detach"
                  /\ issued[k].role = issued[i].role
                  /\ issued[k].policy = p
       /\ ~ret.err =>
            \A i \in 1..Len(roles) :
              roles[i].RoleName # Empty =>
                \E k \in 1..Len(issued) :
                  issued[k].call = "delete" /\ issued[k].role = roles[i].RoleName

\* ------------------------------------------------------------------- tags
\* The tags every create adapter hands to the provider.  A tag is modelled by
\* its key.  A Go slice is [array, len, cap]: array is the backing array
\* (cap slots, "" for a slot never written); `tagged` in locals records, for
\* every resource created, the tags of its create call in order.
NameTagKey == "Name"
ClusterNameTagKey == "kubernetes.io/cluster/cluster-name"
ClusterNameSharedTagKey == "kubernetes.io/cluster/<clusterName>"
InternalELBTagKey == "kubernetes.io/role/internal-elb"
ELBTagKey == "kubernetes.io/role/elb"
UserTagKeys == <<"team", "env", "owner">>

\* The backing array seen through the slice header.
Elems(s) == SubSeq(s.array, 1, s.len)

\* The capacity append allocates when the backing array is full.
GrowCap(cap) == IF cap = 0 THEN 1 ELSE 2 * cap

\* append(s, x): written into the backing array of s when it has a free
\* slot, into a new array otherwise.
GoAppend(s, x) ==
  IF s.len < s.cap
  THEN [array |-> [s.array EXCEPT ![s.len + 1] = x], len |-> s.len + 1, cap |-> s.cap]
  ELSE [array |-> [i \in 1..GrowCap(s.cap) |->
                     IF i <= s.len THEN s.array[i] ELSE IF i = s.len + 1 THEN x ELSE ""],
        len |-> s.len + 1, cap |-> GrowCap(s.cap)]

RECURSIVE GoAppendAll(_, _, _)
GoAppendAll(s, xs, i) ==
  IF i > Len(xs) THEN s ELSE GoAppendAll(GoAppend(s, xs[i]), xs, i + 1)

\* CreateEC2Tags / CreateIAMTags: the name tag, then one tag per entry of the
\* map.  Key and Value of every such tag point to the two variables of the
\* range loop, so when the loop is over every one of them shows the entry the
\* loop visited last.
CreateEC2Tags(userTags, lastVisited) ==
  GoAppendAll([array |-> <<NameTagKey>>, len |-> 1, cap |-> 1],
              [i \in 1..userTags |-> UserTagKeys[lastVisited]], 1)

CreateIAMTags(userTags, lastVisited) == CreateEC2Tags(userTags, lastVisited)

\* CreateMapTags: the caller's map with the name entry added.
CreateMapTags(userTags) ==
  {NameTagKey} \cup {UserTagKeys[i] : i \in 1..userTags}

\* A map handed to the provider, as a sequence of keys.
RECURSIVE MapTags(_)
MapTags(keys) ==
  IF keys = {} THEN <<>>
  ELSE LET k == CHOOSE k \in keys : TRUE IN <<k>> \o MapTags(keys \ {k})

NoTags == <<>>

\* CreateVPC: *tags = append(*tags, ...) twice, then CreateVpc with *tags.
CreateVPCTags(tags) ==
  GoAppend(GoAppend(tags, ClusterNameTagKey), ClusterNameSharedTagKey)

\* CreateSubnets: privateTags := append(*tags, internalELBTag), then
\* publicTags := append(*tags, elbTag).  When *tags has a free slot both
\* appends write that slot of the one backing array and both slices show
\* what the second append wrote.
SubnetTags(tags) ==
  LET private == GoAppend(tags, InternalELBTagKey)
      public == GoAppend(tags, ELBTagKey)
  IN [privateTags |-> IF tags.len < tags.cap
                      THEN [private EXCEPT !.array = public.array] ELSE private,
      publicTags |-> public,
      tags |-> IF tags.len < tags.cap THEN [tags EXCEPT !.array = public.array]
               ELSE tags]

\* What each step creates and the tags its create calls carry.
TaggedBy(step, l, n) ==
  LET ec2 == Elems(l.ec2Tags)
      iam == Elems(l.iamTags)
      map == MapTags(l.mapTags)
      on(ids, tags) == {[id |-> id, tags |-> tags] : id \in ids}
  IN CASE step = "CreateInternetGateway" -> on({IgwId}, ec2)
       [] step = "CreateElasticIPs" -> on({ElasticIPId(i) : i \in 1..n}, ec2)
       [] step = "CreateNATGateways" -> on({NatGatewayId(i) : i \in 1..n}, ec2)
       [] step = "CreateRouteTables" ->
            on({PublicRouteTableId} \cup {PrivateRouteTableId(i) : i \in 1..n}, ec2)
       [] step = "CreateDNSManagementPolicy" ->
            IF cfg.DNSManagement THEN on({DNSPolicyArn}, NoTags) ELSE {}
       [] step = "CreateClusterAutoscalingPolicy" ->
            IF cfg.ClusterAutoscaling THEN on({ClusterAutoscalingPolicyArn}, NoTags) ELSE {}
       [] step = "CreateRoles" ->
            on({ClusterRoleName}, iam) \cup on({WorkerRoleName}, NoTags)
       [] step = "CreateCluster" -> on({ClusterName}, map)
       [] step = "CreateNodeGroups" -> on({PrivateNodeGroupName}, map)
       [] step = "CreateOIDCProvider" -> on({OIDCProviderArn}, NoTags)
       [] step = "CreateDNSManagementRole" ->
            IF cfg.DNSManagement THEN on({DNSManagementRoleName}, iam) ELSE {}
       [] step = "CreateClusterAutoscalingRole" ->
            IF cfg.ClusterAutoscaling THEN on({ClusterAutoscalingRoleName}, iam) ELSE {}
       [] step = "CreateStorageManagementRole" -> on({StorageManagementRoleName}, iam)
       [] step = "CreateEBSStorageAddon" -> on({EBSStorageAddonName}, map)
       [] OTHER -> {}

NoTagged ==
  [userTags |-> 0,
   ec2Tags |-> [array |-> <<>>, len |-> 0, cap |-> 0],
   iamTags |-> [array |-> <<>>, len |-> 0, cap |-> 0],
   mapTags |-> {},
   tagged |-> {}]

InitTags ==
  /\ cmd = "createCmd"
  /\ cfg \in {c \in Configs : c.Tags = "map" /\ c.Region # "" /\ c.AvailabilityZones > 0}
  /\ awsRegion = "us-east-2"
  /\ azs = <<>>
  /\ pc = "tags"
  /\ inventory = EmptyInventory
  /\ \E k \in 0..MaxUserTags : locals = [NoTagged EXCEPT !.userTags = k]
  /\ file = NoFile
  /\ cloud = {}
  /\ attached = {}
  /\ deleting = {}
  /\ calls = <<>>
  /\ ret = NoRet
  /\ chans = CreateResourceClient
  /\ deleteRuns = 0
  /\ goroutine = "main"
  /\ parked = NoGoroutine
  /\ poll = NoWait

TagsUnchanged ==
  UNCHANGED <<cfg, awsRegion, azs, inventory, file, attached, deleting, calls, ret,
              chans, deleteRuns, cmd, goroutine, parked, poll>>

\* CreateResourceStack: the three tag collections built from the name and
\* the configured tags.
CreateResourceStack_Tags ==
  /\ pc = "tags"
  /\ \E lastVisited \in 1..Len(UserTagKeys) :
       /\ lastVisited <= (IF locals.userTags = 0 THEN 1 ELSE locals.userTags)
       /\ locals' = [locals EXCEPT
                       !.ec2Tags = CreateEC2Tags(locals.userTags, lastVisited),
                       !.iamTags = CreateIAMTags(locals.userTags, lastVisited),
                       !.mapTags = CreateMapTags(locals.userTags)]
  /\ pc' = CreateSequence[1]
  /\ UNCHANGED cloud
  /\ TagsUnchanged

CreateVPC_Tags ==
  /\ pc = "CreateVPC"
  /\ LET tags == CreateVPCTags(locals.ec2Tags)
     IN locals' = [locals EXCEPT !.ec2Tags = tags,
                                 !.tagged = @ \cup {[id |-> VpcId, tags |-> Elems(tags)]}]
  /\ cloud' = cloud \cup {VpcId}
  /\ pc' = AfterCreate("CreateVPC")
  /\ TagsUnchanged

CreateSubnets_Tags ==
  /\ pc = "CreateSubnets"
  /\ LET t == SubnetTags(locals.ec2Tags)
         n == cfg.AvailabilityZones
         new == {[id |-> PrivateSubnetId(i), tags |-> Elems(t.privateTags)] : i \in 1..n}
                \cup {[id |-> PublicSubnetId(i), tags |-> Elems(t.publicTags)] : i \in 1..n}
     IN /\ locals' = [locals EXCEPT !.ec2Tags = t.tags, !.tagged = @ \cup new]
        /\ cloud' = cloud \cup {e.id : e \in new}
  /\ pc' = AfterCreate("CreateSubnets")
  /\ TagsUnchanged

\* Every other step hands the tags it is given to the provider as they are,
\* or hands none.
Create_Tags ==
  /\ pc \in Range(CreateSequence) \ {"CreateVPC", "CreateSubnets"}
  /\ LET new == TaggedBy(pc, locals, cfg.AvailabilityZones)
     IN /\ locals' = [locals EXCEPT !.tagged = @ \cup new]
        /\ cloud' = cloud \cup {e.id : e \in new}
  /\ pc' = AfterCreate(pc)
  /\ TagsUnchanged

NextTags ==
  \/ CreateResourceStack_Tags
  \/ CreateVPC_Tags
  \/ CreateSubnets_Tags
  \/ Create_Tags

SpecTags == InitTags /\ [][NextTags]_vars

TagKeys(e) == Range(e.tags)

\* C28: every resource a create run has created carries a name tag and a
\* cluster-ownership tag.
EveryResourceNameAndClusterTagged ==
  pc # "tags" =>
    \A e \in locals.tagged :
      /\ NameTagKey \in TagKeys(e)
      /\ TagKeys(e) \cap {ClusterNameTagKey, ClusterNameSharedTagKey} # {}

\* C29: every private subnet carries the internal-elb role tag and not the
\* elb role tag, and every public subnet the elb role tag and not the
\* internal-elb role tag.
SubnetRoleTags ==
  pc # "tags" =>
    \A e \in locals.tagged :
      /\ (e.id[1] = "subnet" /\ e.id[2] = "private") =>
           (InternalELBTagKey \in TagKeys(e) /\ ELBTagKey \notin TagKeys(e))
      /\ (e.id[1] = "subnet" /\ e.id[2] = "public") =>
           (ELBTagKey \in TagKeys(e) /\ InternalELBTagKey \notin TagKeys(e))

\* ------------------------------------------------------------ route tables
\* CreateNATGateways, the zone mapping of getNATGatewayStatuses and
\* CreateRouteTables over the zones of a run whose subnets and elastic IPs
\* exist.  locals holds the provider's side: natGateways the NAT gateways
\* with the subnet each resides in, listing the last DescribeNatGateways
\* answer, associations the <<route table, subnet>> pairs and routes the
\* <<route table, target>> pairs of the default routes.
NoRoutes ==
  [natGateways |-> {}, listing |-> <<>>, associations |-> {}, routes |-> {}]

\* The zones as CreateSubnets leaves them.
ZonesWithSubnets(n) ==
  [i \in 1..n |-> [AvailabilityZone EXCEPT !.PrivateSubnetID = PrivateSubnetId(i),
                                           !.PublicSubnetID = PublicSubnetId(i)]]

InitRouteTables ==
  /\ cmd = "createCmd"
  /\ cfg \in {c \in Configs : c.Tags = "map" /\ c.Region # "" /\ c.AvailabilityZones > 0}
  /\ awsRegion = "us-east-2"
  /\ azs = ZonesWithSubnets(cfg.AvailabilityZones)
  /\ pc = "CreateNATGateways"
  /\ inventory = EmptyInventory
  /\ locals = NoRoutes
  /\ file = NoFile
  /\ cloud = {VpcId, IgwId}
             \cup UNION {{PrivateSubnetId(i), PublicSubnetId(i), ElasticIPId(i)} :
                           i \in 1..cfg.AvailabilityZones}
  /\ attached = {}
  /\ deleting = {}
  /\ calls = <<>>
  /\ ret = NoRet
  /\ chans = CreateResourceClient
  /\ deleteRuns = 0
  /\ goroutine = "main"
  /\ parked = NoGoroutine
  /\ poll = NoWait

RoutesUnchanged ==
  UNCHANGED <<cfg, awsRegion, inventory, file, attached, deleting, calls, chans,
              deleteRuns, cmd, goroutine, parked, poll>>

\* CreateNATGateways: the gateway of zone i is created in the public subnet
\* of zone i.
NATGateways_Create ==
  /\ pc = "CreateNATGateways"
  /\ \E failAt \in FailAt(Len(azs)) :
       LET r == CreateNATGateways(azs, <<>>, failAt)
           n == IF failAt = 0 THEN Len(azs) ELSE failAt - 1
       IN /\ cloud' = cloud \cup r.created
          /\ locals' = [locals EXCEPT !.natGateways =
                          {[id |-> NatGatewayId(i), subnet |-> azs[i].PublicSubnetID] :
                             i \in 1..n}]
          /\ ret' = Ret("CreateNATGateways", r)
          /\ pc' = CreateOutcome("CreateNATGateways", r.err)
  /\ UNCHANGED azs
  /\ RoutesUnchanged

\* The answers DescribeNatGateways can give: NAT gateways of the VPC in any
\* order, none of them twice.
Listings(gateways) ==
  {s \in SeqUpTo(gateways, Cardinality(gateways)) :
     \A i, j \in 1..Len(s) : i # j => s[i] # s[j]}

\* A mapping that gives the k-th listed gateway to the k-th zone.
RECURSIVE getNATGatewayStatusesByPosition(_, _, _)
getNATGatewayStatusesByPosition(listing, k, zones) ==
  IF k > Len(listing) THEN [err |-> FALSE, zones |-> zones]
  ELSE IF k > Len(zones) THEN [err |-> TRUE, zones |-> zones]
  ELSE getNATGatewayStatusesByPosition(listing, k + 1,
         [zones EXCEPT ![k].NATGatewayID = listing[k].id])

\* getNATGatewayStatuses: every listed gateway goes to the first zone whose
\* public subnet is the subnet the gateway resides in; an error when there is
\* no such zone.
RECURSIVE getNATGatewayStatuses(_, _, _)
getNATGatewayStatuses(listing, k, zones) ==
  IF k > Len(listing) THEN [err |-> FALSE, zones |-> zones]
  ELSE LET matching == {i \in 1..Len(zones) : zones[i].PublicSubnetID = listing[k].subnet}
       IN IF matching = {} THEN [err |-> TRUE, zones |-> zones]
          ELSE LET i == CHOOSE i \in matching : \A j \in matching : i <= j
               IN getNATGatewayStatuses(listing, k + 1,
                    [zones EXCEPT ![i].NATGatewayID = listing[k].id])

\* WaitForNATGateways(Created) when every listed gateway is available.
NATGateways_Mapped ==
  /\ pc = "WaitForNATGateways:Created"
  /\ \E listing \in Listings(locals.natGateways) :
       LET m == getNATGatewayStatuses(listing, 1, azs)
       IN /\ azs' = m.zones
          /\ locals' = [locals EXCEPT !.listing = listing]
          /\ ret' = [NoRet EXCEPT !.op = "WaitForNATGateways:Created", !.err = m.err]
          /\ pc' = CreateOutcome("WaitForNATGateways:Created", m.err)
  /\ UNCHANGED cloud
  /\ RoutesUnchanged

\* The provider calls of CreateRouteTables in order.
RECURSIVE RouteTableCalls(_, _, _)
RouteTableCalls(zones, internetGatewayID, i) ==
  IF i = 0
  THEN <<[call |-> "CreateRouteTable", rtb |-> PublicRouteTableId, arg |-> Empty],
         [call |-> "CreateRoute", rtb |-> PublicRouteTableId, arg |-> internetGatewayID]>>
       \o RouteTableCalls(zones, internetGatewayID, 1)
  ELSE IF i > Len(zones) THEN <<>>
  ELSE <<[call |-> "CreateRouteTable", rtb |-> PrivateRouteTableId(i), arg |-> Empty],
         [call |-> "AssociateRouteTable", rtb |-> PrivateRouteTableId(i),
          arg |-> zones[i].PrivateSubnetID],
         [call |-> "CreateRoute", rtb |-> PrivateRouteTableId(i),
          arg |-> zones[i].NATGatewayID],
         [call |-> "AssociateRouteTable", rtb |-> PublicRouteTableId,
          arg |-> zones[i].PublicSubnetID]>>
       \o RouteTableCalls(zones, internetGatewayID, i + 1)

\* The calls made one after the other; the function returns at the first
\* call the provider answers with an error.  The provider refuses a route to
\* a target and an association with a subnet that does not exist.
RECURSIVE CreateRouteTablesLoop(_, _, _, _, _)
CreateRouteTablesLoop(rcalls, k, existing, failAt, acc) ==
  IF k > Len(rcalls) THEN acc
  ELSE LET c == rcalls[k]
       IN IF failAt = k \/ (c.call # "CreateRouteTable" /\ c.arg \notin existing)
          THEN [acc EXCEPT !.err = TRUE]
          ELSE CreateRouteTablesLoop(rcalls, k + 1, existing, failAt,
                 [acc EXCEPT
                    !.created = IF c.call = "CreateRouteTable" THEN @ \cup {c.rtb} ELSE @,
                    !.associations = IF c.call = "AssociateRouteTable"
                                     THEN @ \cup {<<c.rtb, c.arg>>} ELSE @,
                    !.routes = IF c.call = "CreateRoute"
                               THEN @ \cup {<<c.rtb, c.arg>>} ELSE @])

CreateRouteTablesCalls(zones, internetGatewayID, existing, failAt) ==
  CreateRouteTablesLoop(RouteTableCalls(zones, internetGatewayID, 0), 1, existing, failAt,
                        [err |-> FALSE, created |-> {}, associations |-> {}, routes |-> {}])

RouteTables_Create ==
  /\ pc = "CreateRouteTables"
  /\ \E failAt \in FailAt(2 + 4 * Len(azs)) :
       LET r == CreateRouteTablesCalls(azs, IgwId, cloud, failAt)
       IN /\ cloud' = cloud \cup r.created
          /\ locals' = [locals EXCEPT !.associations = r.associations,
                                      !.routes = r.routes]
          /\ ret' = [NoRet EXCEPT !.op = "CreateRouteTables", !.err = r.err,
                                  !.created = r.created]
          /\ pc' = CreateOutcome("CreateRouteTables", r.err)
  /\ UNCHANGED azs
  /\ RoutesUnchanged

NextRouteTables ==
  \/ NATGateways_Create
  \/ NATGateways_Mapped
  \/ RouteTables_Create

SpecRouteTables == InitRouteTables /\ [][NextRouteTables]_vars

AssociatedWith(rtb) == {a[2] : a \in {b \in locals.associations : b[1] = rtb}}
RoutedTo(rtb) == {a[2] : a \in {b \in locals.routes : b[1] = rtb}}

\* C30: when CreateRouteTables has returned no error over N zones there is
\* one public route table, associated with the N public subnets and routed to
\* the internet gateway, and N private route tables, the one of each zone
\* associated with the private subnet of the zone only and routed to the NAT
\* gateway that resides in the public subnet of the zone.
RouteTablesPerZone ==
  (ret.op = "CreateRouteTables" /\ ~ret.err) =>
    LET N == Len(azs)
    IN /\ ret.created = {PublicRouteTableId} \cup {PrivateRouteTableId(i) : i \in 1..N}
       /\ AssociatedWith(PublicRouteTableId) = {PublicSubnetId(i) : i \in 1..N}
       /\ RoutedTo(PublicRouteTableId) = {IgwId}
       /\ \A i \in 1..N :
            /\ AssociatedWith(PrivateRouteTableId(i)) = {PrivateSubnetId(i)}
            /\ \E g \in locals.natGateways :
                 /\ g.subnet = PublicSubnetId(i)
                 /\ RoutedTo(PrivateRouteTableId(i)) = {g.id}

\* C30 witness: route tables created over two zones after the provider
\* listed the NAT gateway of the second zone first.
RouteTablesOverTwoZones ==
  /\ ret.op = "CreateRouteTables" /\ ~ret.err
  /\ Len(azs) = 2
  /\ Len(locals.listing) = 2
  /\ locals.listing[1].id = NatGatewayId(2)
  /\ RoutedTo(PrivateRouteTableId(2)) = {NatGatewayId(2)}

\* ------------------------------------------------ claims on errors and order

\* C31: in WaitForCluster and WaitForNodeGroups a round that fetched a
\* provider error other than NotFound, or NotFound while waiting for Created,
\* ends the call with an error: no success and no further polling.
FetchErrorEndsWait ==
  (poll.op \in {"WaitForCluster", "WaitForNodeGroups"} /\ poll.fetches > 0) =>
    ((\E i \in 1..Len(poll.round) :
        \/ poll.round[i] = "Error"
        \/ poll.round[i] = "NotFound" /\ poll.condition = "Created")
     => poll.result = "error")

\* C31 witness: WaitForNodeGroups(Created) over two names, the first active
\* and the second not found.
NodeGroupNotFoundWhileCreating ==
  /\ poll.op = "WaitForNodeGroups" /\ poll.condition = "Created"
  /\ poll.round = <<"ACTIVE", "NotFound">>
  /\ poll.result = "error"


\* ------------------------------------------------------- the inventory writer
\* createCmd's goroutine  for inventory := range *InventoryChan { WriteInventory }
\* beside the orchestrator that sends on the unbuffered channel and the main
\* goroutine that reads the file back once CreateResourceStack has returned an
\* error.  A send completes when the writer has received the snapshot; the
\* writer writes the file afterwards, on its own schedule.  parked is the
\* writer: pc "receive" while it waits on the channel, "write" while it holds
\* a snapshot it has not written, "truncated" between the truncation and the
\* write of os.WriteFile.  locals is the inventory main has read.  The
\* orchestrator runs CreateVPC, CreateInternetGateway and CreateSubnets.

\* The file os.WriteFile has opened with O_TRUNC and not written yet.
TruncatedFile == [WriteInventory(EmptyInventory) EXCEPT !.region = "<truncated>"]

WriterReceiving == [NoGoroutine EXCEPT !.pc = "receive"]

InitWriter ==
  /\ cmd = "createCmd"
  /\ cfg \in {c \in Configs : c.Tags = "map" /\ c.Region # "" /\ c.AvailabilityZones > 0}
  /\ awsRegion = "us-east-2"
  /\ azs = [i \in 1..cfg.AvailabilityZones |-> AvailabilityZone]
  /\ pc = "CreateVPC"
  /\ inventory = [EmptyInventory EXCEPT !.Region = cfg.Region]
  /\ locals = EmptyInventory
  /\ file = NoFile
  /\ cloud = {}
  /\ attached = {}
  /\ deleting = {}
  /\ calls = <<>>
  /\ ret = NoRet
  /\ chans = CreateResourceClient
  /\ deleteRuns = 0
  /\ goroutine = "main"
  /\ parked = WriterReceiving
  /\ poll = NoWait

WriterUnchanged ==
  UNCHANGED <<cfg, awsRegion, attached, deleting, chans, deleteRuns, cmd, goroutine, poll>>

\* An adapter has returned r; the code records inv1 and sends it when send
\* holds, and returns r.err afterwards.
AdapterReturned(op, r, inv1, send, zones) ==
  /\ cloud' = cloud \cup r.created
  /\ calls' = Append(calls, Call(op, r.err))
  /\ azs' = zones
  /\ ret' = [NoRet EXCEPT !.op = op, !.err = r.err]
  /\ inventory' = IF send THEN inv1 ELSE inventory
  /\ pc' = IF send THEN "sendInventory" ELSE "createFailed"
  /\ UNCHANGED <<locals, file, parked>>
  /\ WriterUnchanged

Writer_CreateVPC ==
  /\ pc = "CreateVPC"
  /\ \E failAt \in FailAt(3) :
       LET r == CreateVPC(failAt)
       IN AdapterReturned("CreateVPC", r, [inventory EXCEPT !.VPCID = r.ids[1]],
                          r.ids # <<>>, azs)

Writer_CreateInternetGateway ==
  /\ pc = "CreateInternetGateway"
  /\ \E failAt \in FailAt(2) :
       LET r == CreateInternetGateway(failAt)
       IN AdapterReturned("CreateInternetGateway", r,
                          [inventory EXCEPT !.InternetGatewayID = r.ids[1]],
                          r.ids # <<>>, azs)

Writer_CreateSubnets ==
  /\ pc = "CreateSubnets"
  /\ \E failAt \in FailAt(3 * Len(azs)) :
       LET r == CreateSubnets(azs, failAt)
       IN AdapterReturned("CreateSubnets", r,
                          [inventory EXCEPT !.SubnetIDs = r.privateSubnets \o r.publicSubnets],
                          TRUE, r.zones)

\* *c.InventoryChan <- *inventory meets the writer's receive; the
\* orchestrator goes on to  if err != nil { return err }  or to the next step.
sendInventory_Received ==
  /\ pc = "sendInventory"
  /\ parked.pc = "receive"
  /\ parked' = [parked EXCEPT !.pc = "write", !.inventory = inventory]
  /\ calls' = Append(calls, Inv(inventory))
  /\ pc' = IF ret.err THEN "createFailed"
           ELSE IF ret.op = "CreateVPC" THEN "CreateInternetGateway"
           ELSE IF ret.op = "CreateInternetGateway" THEN "CreateSubnets"
           ELSE "CreateElasticIPs"
  /\ UNCHANGED <<inventory, locals, file, cloud, azs, ret>>
  /\ WriterUnchanged

\* WriteInventory in the writer goroutine: os.WriteFile truncates the file ...
Writer_Truncate ==
  /\ parked.pc = "write"
  /\ parked' = [parked EXCEPT !.pc = "truncated"]
  /\ file' = TruncatedFile
  /\ UNCHANGED <<pc, inventory, locals, cloud, azs, ret, calls>>
  /\ WriterUnchanged

\* ... and writes the JSON; the loop returns to the receive.
Writer_Write ==
  /\ parked.pc = "truncated"
  /\ parked' = [parked EXCEPT !.pc = "receive"]
  /\ file' = WriteInventory(parked.inventory)
  /\ UNCHANGED <<pc, inventory, locals, cloud, azs, ret, calls>>
  /\ WriterUnchanged

\* createCmd after CreateResourceStack returned an error: ReadInventory of
\* the file; a missing file or an empty one is a read error and the command
\* returns without rolling back.
createCmd_ReadInventory ==
  /\ pc = "createFailed"
  /\ IF file \in {NoFile, TruncatedFile}
     THEN pc' = "readFailed" /\ locals' = locals
     ELSE pc' = "rollback" /\ locals' = ReadInventory(file)
  /\ UNCHANGED <<inventory, file, cloud, azs, ret, calls, parked>>
  /\ WriterUnchanged

NextWriter ==
  \/ Writer_CreateVPC
  \/ Writer_CreateInternetGateway
  \/ Writer_CreateSubnets
  \/ sendInventory_Received
  \/ Writer_Truncate
  \/ Writer_Write
  \/ createCmd_ReadInventory

SpecWriter == InitWriter /\ [][NextWriter]_vars

\* The snapshots sent so far, in order.
SnapshotsSent == SelectSeq(calls, LAMBDA e : e.t = "inv")

\* C32: when CreateResourceStack has returned an error, the inventory the
\* caller reads back from the file for the rollback is the last snapshot the
\* run emitted; the read does not fail while a snapshot was emitted.
RollbackReadsLastSnapshot ==
  /\ pc = "rollback" =>
       /\ SnapshotsSent # <<>>
       /\ locals = SnapshotsSent[Len(SnapshotsSent)].inv
  /\ pc = "readFailed" => SnapshotsSent = <<>>


\* The delete adapters that take a list, and the resources the list of the
\* invocation in ret names (for DeleteNATGateways: the gateways of the VPC).
ListAdapters ==
  {"DeleteSubnets", "DeleteElasticIPs", "DeleteRouteTables", "DeleteNodeGroups",
   "DeleteNATGateways", "DeleteRoles", "DeletePolicies"}

ListElements ==
  IF ret.op = "DeleteNATGateways"
  THEN IF ret.args = <<Empty>> THEN {} ELSE {NatGatewayId(i) : i \in 1..MaxZones}
  ELSE Range(ret.args) \ {Empty}

\* C33: a list-taking delete adapter that returns no error has issued a
\* delete for every element of its list: none of them is left in the account
\* unless its deletion is under way, whatever NotFound answers it received.
NotFoundDoesNotStopDeleteLoop ==
  (pc = "adapter" /\ ret.op \in ListAdapters /\ calls # <<>>
     /\ ~calls[Len(calls)].err) =>
    (ListElements \cap cloud) \subseteq deleting


\* The inventory fields the DeleteResourceStack step resets.
ClearedBy(step) ==
  IF step = "DeleteOIDCProvider" THEN {"OIDCProviderARN"}
  ELSE IF step = "WaitForNodeGroups:Deleted" THEN {"NodeGroupNames"}
  ELSE IF step = "WaitForCluster:Deleted" THEN {"Cluster"}
  ELSE IF step = "DeleteRoles"
  THEN {"ClusterRole", "WorkerRole", "DNSManagementRole", "ClusterAutoscalingRole",
        "StorageManagementRole"}
  ELSE IF step = "DeletePolicies" THEN {"PolicyARNs"}
  ELSE IF step = "DeleteInternetGateway" THEN {"InternetGatewayID"}
  ELSE IF step = "DeleteElasticIPs" THEN {"ElasticIPIDs"}
  ELSE IF step = "DeleteSubnets" THEN {"SubnetIDs"}
  ELSE IF step = "DeleteRouteTables" THEN {"PrivateRouteTableIDs", "PublicRouteTableID"}
  ELSE IF step = "DeleteVPC" THEN {"VPCID"}
  ELSE {}

\* A step of a DeleteResourceStack run changes no inventory field but its
\* own, resets it to the empty value and only when its adapter (or wait)
\* returned no error; a step whose adapter returns an error ends the run with
\* the inventory and the file as they were.
DeleteStepFrame ==
  pc \in Range(DeleteSequence) =>
    LET changed == {f \in DOMAIN inventory : inventory'[f] # inventory[f]}
    IN /\ changed \subseteq ClearedBy(pc)
       /\ \A f \in changed : inventory'[f] = EmptyInventory[f]
       /\ changed # {} => (ret'.op = pc /\ ~ret'.err)
       /\ (calls' # calls /\ ret'.op = pc /\ ret'.err) =>
            (pc' = "deleteFailed" /\ inventory' = inventory /\ file' = file)

\* C34: in a DeleteResourceStack run a field is reset only by its own step
\* and only after the step's adapter (or wait) returned no error; a step
\* error ends the run with the inventory unchanged, and no adapter is invoked
\* after it.
DeleteClearsOnlyAfterSuccess ==
  /\ [][DeleteStepFrame]_vars
  /\ [](LET run == CallsOf(DeleteRunEvents)
        IN \A i \in 1..Len(run) : run[i].err => (i = Len(run) /\ pc = "deleteFailed"))

\* C34 witness: DeleteSubnets has failed in a run that had reset the internet
\* gateway and the elastic IPs; the subnets and the VPC are still recorded.
DeleteFailedAtSubnets ==
  /\ pc = "deleteFailed"
  /\ ret.op = "DeleteSubnets" /\ ret.err
  /\ LastRunMark > 0
  /\ calls[LastRunMark].inv.InternetGatewayID # Empty
  /\ calls[LastRunMark].inv.ElasticIPIDs # <<>>
  /\ inventory.InternetGatewayID = Empty
  /\ inventory.ElasticIPIDs = <<>>
  /\ inventory.SubnetIDs = calls[LastRunMark].inv.SubnetIDs
  /\ inventory.SubnetIDs # <<>>
  /\ inventory.VPCID # Empty


\* The progress messages that announce a finished creation or deletion, each
\* with the steps whose success it reports.  The messages of the steps built
\* with DeleteEvents carry the name of their step.
AnnouncedBy ==
  ("VPC created" :> {"CreateVPC"})
  @@ ("Internet gateway created" :> {"CreateInternetGateway"})
  @@ ("Subnets created" :> {"CreateSubnets"})
  @@ ("Elastic IPs created" :> {"CreateElasticIPs"})
  @@ ("NAT gateways created" :> {"CreateNATGateways"})
  @@ ("NAT gateways ready" :> {"WaitForNATGateways:Created"})
  @@ ("Route tables created" :> {"CreateRouteTables"})
  @@ ("IAM policy created" :> {"CreateDNSManagementPolicy", "CreateClusterAutoscalingPolicy"})
  @@ ("IAM roles created" :> {"CreateRoles"})
  @@ ("EKS cluster created" :> {"CreateCluster"})
  @@ ("EKS cluster ready" :> {"WaitForCluster:Created"})
  @@ ("EKS node group created" :> {"CreateNodeGroups"})
  @@ ("EKS node group ready" :> {"WaitForNodeGroups:Created"})
  @@ ("OIDC provider created" :> {"CreateOIDCProvider"})
  @@ ("IAM role created" :> {"CreateDNSManagementRole", "CreateClusterAutoscalingRole",
                             "CreateStorageManagementRole"})
  @@ ("EBS storage addon created" :> {"CreateEBSStorageAddon"})
  @@ ("Node groups deletion complete" :> {"WaitForNodeGroups:Deleted"})
  @@ ("EKS cluster deletion complete" :> {"WaitForCluster:Deleted"})
  @@ ("NAT gateway deletion complete" :> {"WaitForNATGateways:Deleted"})
  @@ ("VPC deleted" :> {"DeleteVPC"})
  @@ [s \in {"DeleteOIDCProvider", "DeleteRoles", "DeletePolicies", "DeleteInternetGateway",
             "DeleteElasticIPs", "DeleteSubnets", "DeleteRouteTables"} |-> {s}]

\* C35: every message announcing a created or deleted resource follows the
\* successful return of the adapter call (or wait) it reports, with nothing
\* but messages and inventory snapshots in between; no such message is
\* emitted before its adapter is called or after it failed.
MessagesFollowSuccess ==
  \A i \in 1..Len(calls) :
    (calls[i].t = "msg" /\ calls[i].op \in DOMAIN AnnouncedBy) =>
      \E j \in 1..(i - 1) :
        /\ calls[j].t = "call"
        /\ calls[j].op \in AnnouncedBy[calls[i].op]
        /\ ~calls[j].err
        /\ \A k \in (j + 1)..(i - 1) : calls[k].t \in {"msg", "inv"}


\* C36: when WaitForNATGateways(Created) has returned no error, every zone
\* of the run records a NAT gateway that resides in the zone's public subnet;
\* it has not returned success on a listing with no gateway or with fewer
\* gateways than zones.
WaitForNATGatewaysCoversEveryZone ==
  (ret.op = "WaitForNATGateways:Created" /\ ~ret.err) =>
    /\ Len(locals.listing) >= Len(azs)
    /\ \A i \in 1..Len(azs) :
         /\ azs[i].NATGatewayID # Empty
         /\ [id |-> azs[i].NATGatewayID, subnet |-> azs[i].PublicSubnetID]
              \in locals.natGateways


\* ------------------------------------------------------- availability zones
\* SetAvailabilityZones of a configuration, with the zone records
\* GetAvailabilityZonesForRegion builds.  locals.offered is the number of
\* zones DescribeAvailabilityZones returns for the region (-1: the call
\* fails), locals.zones the resulting r.AvailabilityZones when the function
\* built them.  DesiredAZCount is a count: 0 when unspecified.
MaxDesiredAZs == 5
MaxOfferedAZs == 4

defaultCIDRs ==
  <<"10.0.0.0/22", "10.0.4.0/22", "10.0.8.0/22", "10.0.12.0/22", "10.0.16.0/22",
    "10.0.20.0/22">>

NoZones == [offered |-> 0, zones |-> <<>>]

\* A zone loop that gives the next zone the public CIDR of the one before.
RECURSIVE GetAvailabilityZonesLoopSharingCIDR(_, _, _, _, _)
GetAvailabilityZonesLoopSharingCIDR(offered, azCount, k, cidrIndex, acc) ==
  IF k > offered \/ ~(Len(acc) < azCount) THEN [panic |-> FALSE, zones |-> acc]
  ELSE IF cidrIndex + 2 > Len(defaultCIDRs) THEN [panic |-> TRUE, zones |-> acc]
  ELSE GetAvailabilityZonesLoopSharingCIDR(offered, azCount, k + 1, cidrIndex + 1,
         Append(acc, [Zone |-> k,
                      PrivateSubnetCIDR |-> defaultCIDRs[cidrIndex + 1],
                      PublicSubnetCIDR |-> defaultCIDRs[cidrIndex + 2]]))

\* for _, az := range resp.AvailabilityZones: while azsSet < azCount, a zone
\* with defaultCIDRs[cidrIndex] and defaultCIDRs[cidrIndex+1]; cidrIndex
\* counts from 0 as in the code, and an index past the list panics.
RECURSIVE GetAvailabilityZonesLoop(_, _, _, _, _)
GetAvailabilityZonesLoop(offered, azCount, k, cidrIndex, acc) ==
  IF k > offered \/ ~(Len(acc) < azCount) THEN [panic |-> FALSE, zones |-> acc]
  ELSE IF cidrIndex + 2 > Len(defaultCIDRs) THEN [panic |-> TRUE, zones |-> acc]
  ELSE GetAvailabilityZonesLoop(offered, azCount, k + 1, cidrIndex + 2,
         Append(acc, [Zone |-> k,
                      PrivateSubnetCIDR |-> defaultCIDRs[cidrIndex + 1],
                      PublicSubnetCIDR |-> defaultCIDRs[cidrIndex + 2]]))

\* GetAvailabilityZonesForRegion with the zone records.
AvailabilityZonesForRegion(desiredAZs, offered) ==
  IF offered < 0 THEN [err |-> TRUE, panic |-> FALSE, zones |-> <<>>]
  ELSE LET azCount == IF desiredAZs > maxAZCount THEN maxAZCount ELSE desiredAZs
           l == GetAvailabilityZonesLoop(offered, azCount, 1, 0, <<>>)
       IN [err |-> FALSE, panic |-> l.panic, zones |-> l.zones]

InitZones ==
  /\ cmd = "createCmd"
  /\ \E c \in {c \in Configs : c.Tags = "map"}, d \in 0..MaxDesiredAZs :
       cfg = [c EXCEPT !.DesiredAZCount = d]
  /\ awsRegion = "us-east-2"
  /\ azs = <<>>
  /\ pc = "SetAvailabilityZones"
  /\ inventory = EmptyInventory
  /\ \E o \in -1..MaxOfferedAZs : locals = [NoZones EXCEPT !.offered = o]
  /\ file = NoFile
  /\ cloud = {}
  /\ attached = {}
  /\ deleting = {}
  /\ calls = <<>>
  /\ ret = NoRet
  /\ chans = CreateResourceClient
  /\ deleteRuns = 0
  /\ goroutine = "main"
  /\ parked = NoGoroutine
  /\ poll = NoWait

\* r.SetAvailabilityZones(resourceClient)
SetAvailabilityZones_Call ==
  /\ pc = "SetAvailabilityZones"
  /\ IF cfg.Region = ""
     THEN pc' = "createFailed" /\ UNCHANGED <<cfg, locals>>
     ELSE IF cfg.AvailabilityZones > 0
     THEN pc' = "zonesGiven" /\ UNCHANGED <<cfg, locals>>
     ELSE LET r == AvailabilityZonesForRegion(
                     IF cfg.DesiredAZCount = 0 THEN 2 ELSE cfg.DesiredAZCount,
                     locals.offered)
          IN /\ pc' = IF r.panic THEN "panic"
                      ELSE IF r.err THEN "createFailed" ELSE "zonesSet"
             /\ cfg' = IF r.err \/ r.panic THEN cfg
                       ELSE [cfg EXCEPT !.AvailabilityZones = Len(r.zones)]
             /\ locals' = IF r.err \/ r.panic THEN locals
                          ELSE [locals EXCEPT !.zones = r.zones]
  /\ UNCHANGED <<awsRegion, azs, inventory, file, cloud, attached, deleting, calls, ret,
                 chans, deleteRuns, cmd, goroutine, parked, poll>>

NextZones == SetAvailabilityZones_Call

SpecZones == InitZones /\ [][NextZones]_vars

\* The CIDRs of the zones, private then public, zone by zone.
RECURSIVE ZoneCIDRs(_, _)
ZoneCIDRs(zones, i) ==
  IF i > Len(zones) THEN <<>>
  ELSE <<zones[i].PrivateSubnetCIDR, zones[i].PublicSubnetCIDR>> \o ZoneCIDRs(zones, i + 1)

TagHelpersOneTagPerEntry ==
  pc = "CreateVPC" =>
    \A s \in {locals.ec2Tags, locals.iamTags} :
      /\ s.len = 1 + locals.userTags
      /\ Elems(s)[1] = NameTagKey
      /\ {Elems(s)[i] : i \in 2..s.len} = {UserTagKeys[i] : i \in 1..locals.userTags}


\* C39: a create run whose configuration has no tags (the nil map of
\* NewResourceConfig) gets past the construction of the tags: CreateMapTags
\* returns and the run does not panic.
NoTagsRunBuildsTags ==
  (cfg.Tags = "nil" /\ pc # "start") => pc # "panic"

====
